---- MODULE Spec2Model ----
(***************************************************************************)
(* Verification model of react-map-gl's mapbox binding.                    *)
(*                                                                         *)
(* Part 1: the proxy transform (createProxyTransform): the committed       *)
(* ("controlled") camera, the proposed camera that exists during a camera  *)
(* update, and the view state declared by the React props.                 *)
(* Part 2: the MapRef built by createRef.                                  *)
(***************************************************************************)
EXTENDS Integers, FiniteSets, Sequences, TLC

\* ------------------------------------------------------------------ bounds
\* Number of proxy operations (writes, calls, reads, $reactViewState
\* assignments) in one behaviour.
MaxOps == 2
\* Number of methods defined on the native map before createRef is called.
MaxMethods == 2
\* Number of runs of the Map component's construction effect (mounts and
\* changes of mapLib/reuseMaps/id) in one behaviour.
MaxRuns == 2
\* Number of re-renders of a Marker component in one behaviour.
MaxRenders == 2
MaxLayerRenders == 1

\* ------------------------------------------------------------------ values
\* JavaScript undefined and NaN, next to the finite camera values.  The
\* handlers only test a value for being finite and compare it with another
\* one, so two finite values stand for all of them.
Undefined == -1
NaN == -2
Val == {0, 1}

\* Number.isFinite(x)
IsFinite(x) == x \in Val
\* d ?? x : only null/undefined fall through to x, NaN does not.
Coalesce(d, x) == IF d = Undefined THEN x ELSE d

\* ------------------------------------------------------------- properties
CenterProps == {"center", "_center"}
ZoomProps == {"zoom", "_zoom", "_seaLevelZoom"}
AltitudeProps == {"_centerAltitude"}
PitchProps == {"pitch", "_pitch"}
BearingProps == {"bearing", "rotation", "angle"}
\* A camera field the set handler has no branch for, a property that is no
\* camera field at all, and a key that is not a string.
PaddingProp == "padding"
UnknownProp == "foo"
SymbolProp == "Symbol(s)"

ScalarProps == ZoomProps \cup AltitudeProps \cup PitchProps \cup BearingProps
                 \cup {PaddingProp, UnknownProp}
FieldProps == CenterProps \cup ScalarProps
AllProps == FieldProps \cup {SymbolProp}

unproxiedMethods ==
  {"_calcMatrices", "_calcFogMatrices", "_updateCameraState", "_updateSeaLevelZoom"}

validProps ==
  {"center", "_center", "zoom", "_zoom", "_seaLevelZoom", "pitch", "_pitch",
   "bearing", "rotation", "angle", "_centerAltitude", "_setZoom",
   "_translateCameraConstrained", "$reactViewState", "$proposedTransform",
   "$internalUpdate"}

\* typeof prop === 'string'
IsString(prop) == prop # SymbolProp

isValidTransformProperty(prop) ==
  prop \in validProps \/ prop \in unproxiedMethods \/ IsString(prop)

\* -------------------------------------------------------------- transform
\* The members of a Transform that the properties read and write.  center
\* is the pair (lng, lat).  Properties that name the same camera quantity
\* (zoom/_zoom, pitch/_pitch, bearing/rotation/angle) share one member.
TFields ==
  {"lng", "lat", "zoom", "seaLevelZoom", "pitch", "bearing", "altitude",
   "padding", "foo"}

StorageOf(prop) ==
  CASE prop \in {"zoom", "_zoom"} -> "zoom"
    [] prop = "_seaLevelZoom" -> "seaLevelZoom"
    [] prop \in PitchProps -> "pitch"
    [] prop \in BearingProps -> "bearing"
    [] prop \in AltitudeProps -> "altitude"
    [] prop = PaddingProp -> "padding"
    [] OTHER -> "foo"

\* The group of a property: what a claim calls "the field".
GroupOf(prop) ==
  CASE prop \in CenterProps -> "center"
    [] prop = SymbolProp -> "symbol"
    [] OTHER -> StorageOf(prop)

\* tr[prop]
PropGet(tr, prop) ==
  IF prop \in CenterProps THEN <<tr["lng"], tr["lat"]>> ELSE tr[StorageOf(prop)]

\* tr[prop] = value
PropSet(tr, prop, value) ==
  IF prop \in CenterProps
  THEN [tr EXCEPT !["lng"] = value[1], !["lat"] = value[2]]
  ELSE [tr EXCEPT ![StorageOf(prop)] = value]

\* tr.clone()
Clone(tr) == tr

\* The engine's transform when the proxy is created.
DefaultTransform == [f \in TFields |-> IF f = "foo" THEN Undefined ELSE 0]

\* ------------------------------------------------------------- view state
ViewFields ==
  {"longitude", "latitude", "zoom", "pitch", "bearing", "elevation", "padding"}

EmptyViewState == [f \in ViewFields |-> Undefined]

\* The transform member a declared field is applied to.
MemberOf(f) ==
  CASE f = "longitude" -> "lng"
    [] f = "latitude" -> "lat"
    [] f = "elevation" -> "altitude"
    [] OTHER -> f

\* The declared fields of a group of properties (none for _seaLevelZoom and
\* for properties that are no camera field).
FieldsOf(group) ==
  CASE group = "center" -> {"longitude", "latitude"}
    [] group = "altitude" -> {"elevation"}
    [] group \in {"zoom", "pitch", "bearing", "padding"} -> {group}
    [] OTHER -> {}

\* The declared field that guards a scalar property in the set handler
\* (none for padding and for unknown properties).
GuardOf(prop) ==
  CASE prop \in ZoomProps -> "zoom"
    [] prop \in AltitudeProps -> "elevation"
    [] prop \in PitchProps -> "pitch"
    [] prop \in BearingProps -> "bearing"
    [] OTHER -> "none"

\* Whether a declared field carries a value ("undefined/NaN: not declared").
\* padding is an object, not a number: it is declared when it is present.
IsDeclared(view, f) ==
  IF f = "padding" THEN view[f] # Undefined ELSE IsFinite(view[f])

\* The groups of declared fields: center is declared through longitude
\* and latitude.
ViewGroups ==
  {{"longitude", "latitude"}, {"zoom"}, {"pitch"}, {"bearing"}, {"elevation"},
   {"padding"}}

\* The view states over the groups G: every field of a group of G is
\* undefined, NaN or a camera value (padding: undefined or a value), and
\* every other field is undefined.
ViewsOver(G) ==
  { [f \in ViewFields |-> IF f \in UNION G THEN a[f] ELSE Undefined] :
      a \in {b \in [UNION G -> Val \cup {Undefined, NaN}] :
               \A f \in UNION G : f = "padding" => b[f] # NaN} }

\* The view states the application declares: one group of fields or none
\* (the other fields are free), and the documented controlled map, which
\* declares longitude, latitude and zoom.
DeclaredViews ==
  UNION { ViewsOver({g}) : g \in ViewGroups }
    \cup { [f \in ViewFields |->
              IF f \in {"longitude", "latitude", "zoom"} THEN a[f] ELSE Undefined] :
             a \in [{"longitude", "latitude", "zoom"} -> Val] }

\* --------------------------------------------------------------- variables
VARIABLES
  internalUpdate,       \* $internalUpdate: a camera update is in progress
  reactViewState,       \* $reactViewState: the declared view
  controlledTransform,  \* the committed camera
  proposedTransform,    \* $proposedTransform: <<>> (null) or <<transform>>
  lastOp,               \* the last operation on the proxy and its outcome
  overridden,           \* a write of the current update was replaced
  constrained,          \* _translateCameraConstrained was read in the
                        \* current update while the view state is controlled
  nOps,                 \* operations so far
  faults,               \* whether the wrapped transform may throw
  mapMethods,           \* members of the native map
  ref,                  \* <<>> before createRef, then <<what it returned>>
  mounted,              \* the Map component is mounted
  props,                \* its props as of the last render
  mapInstance,          \* useState: 0 (null) or a controller
  isLoading,            \* useState
  error,                \* useState: an error is set
  renderedError,        \* error as of the last render (effect dependency)
  dirty,                \* a state update waits for its render
  runs,                 \* the runs of the construction effect
  controllers,          \* the Mapbox controllers constructed so far
  pool,                 \* the controllers kept for reuse, by id
  plugin,               \* the RTL text plugin and its load
  lastEv,               \* the last step of the component and what it did
  marker,               \* <<>> or <<the marker a Marker component created>>
  thisRef,              \* thisRef.current.props of the Marker component
  rendered,             \* the props of its most recent render
  markerEv,             \* the last step of the Marker and what it did
  nRenders,             \* renders of the Marker so far
  mapTransform,         \* map.transform of the native map
  globalsSt,            \* the engine module and the last setGlobals call
  layerSt,              \* a Layer component and the layers of the map
  eqSt                  \* the last call of deepEqual

proxyVars ==
  <<internalUpdate, reactViewState, controlledTransform, proposedTransform,
    lastOp, overridden, constrained, nOps, faults>>
refVars == <<mapMethods, ref>>
mountVars ==
  <<mounted, props, mapInstance, isLoading, error, renderedError, dirty, runs,
    controllers, pool, plugin, lastEv>>
markerVars == <<marker, thisRef, rendered, markerEv, nRenders>>
partVars == <<mapTransform, globalsSt, layerSt, eqSt>>
vars == <<proxyVars, refVars, mountVars, markerVars, partVars>>

Op(kind, prop, value, result, errs, raised) ==
  [kind |-> kind, prop |-> prop, value |-> value, result |-> result,
   errs |-> errs, raised |-> raised]

NoOp == Op("init", "", Undefined, Undefined, <<>>, FALSE)

\* The faults one operation can meet.
FaultsOf(S) == IF faults THEN S \cup {"none"} ELSE {"none"}

\* ------------------------------------------------- helpers (not in src/)
\* isViewStateControlled(viewState): some camera field is declared.
isViewStateControlled(view) == \E f \in ViewFields : IsDeclared(view, f)

\* applyViewStateToTransform(tr, viewState): every declared field is written
\* to its member of the transform, the others are left alone.
Applied(view, f, old) == IF IsDeclared(view, f) THEN view[f] ELSE old

applyViewStateToTransform(tr, view) ==
  [tr EXCEPT !["lng"] = Applied(view, "longitude", @),
             !["lat"] = Applied(view, "latitude", @),
             !["zoom"] = Applied(view, "zoom", @),
             !["pitch"] = Applied(view, "pitch", @),
             !["bearing"] = Applied(view, "bearing", @),
             !["altitude"] = Applied(view, "elevation", @),
             !["padding"] = Applied(view, "padding", @)]

\* ------------------------------------------------------ handlers.set
\* Variant of ControlledValue without lines 201-235: every value goes to
\* the controlled transform as written.
ControlledValue_Passthrough(prop, value, ctorRejects) ==
  [val |-> value, replaced |-> FALSE, errs |-> <<>>]

\* Lines 198-235: the value that goes to the controlled transform.
\*   val      the value
\*   replaced controlledValue !== value
\*   errs     errors reported on the way
\* ctorRejects: the coordinate class of the written value throws on NaN.
ControlledValue(prop, value, ctorRejects) ==
  IF prop \in CenterProps
  THEN IF IsFinite(reactViewState["longitude"]) \/ IsFinite(reactViewState["latitude"])
       THEN LET lng == Coalesce(reactViewState["longitude"], value[1])
                lat == Coalesce(reactViewState["latitude"], value[2])
            IN IF ctorRejects /\ (lng = NaN \/ lat = NaN)
               THEN [val |-> value, replaced |-> FALSE, errs |-> <<"set:center">>]
               ELSE [val |-> <<lng, lat>>, replaced |-> TRUE, errs |-> <<>>]
       ELSE [val |-> value, replaced |-> FALSE, errs |-> <<>>]
  ELSE IF GuardOf(prop) # "none" /\ IsFinite(reactViewState[GuardOf(prop)])
       THEN [val |-> PropGet(controlledTransform, prop),
             replaced |-> PropGet(controlledTransform, prop) # value,
             errs |-> <<>>]
       ELSE [val |-> value, replaced |-> FALSE, errs |-> <<>>]

\* Variant of ProposedAfterClone without the internalUpdate test of line
\* 238.
ProposedAfterClone_Always(replaced, fault) ==
  IF replaced /\ proposedTransform = <<>> /\ fault # "clone"
  THEN <<Clone(controlledTransform)>>
  ELSE proposedTransform

\* Lines 237-246: the proposed transform after the lazy clone.
ProposedAfterClone(replaced, fault) ==
  IF internalUpdate /\ replaced /\ proposedTransform = <<>> /\ fault # "clone"
  THEN <<Clone(controlledTransform)>>
  ELSE proposedTransform

\* Lines 167-274: the set trap on a property that is none of the three
\* $-properties.  ret is the trap's return value.
SetTrap(prop, value, ctorRejects, fault) ==
  IF ~isValidTransformProperty(prop)
  THEN [controlled |-> controlledTransform, proposed |-> proposedTransform,
        replaced |-> FALSE, ret |-> FALSE, errs |-> <<"set:invalid">>]
  ELSE
    LET cv == ControlledValue(prop, value, ctorRejects)
        cloneFailed ==
          internalUpdate /\ cv.replaced /\ proposedTransform = <<>> /\ fault = "clone"
        pt1 == ProposedAfterClone(cv.replaced, fault)
        writeProposed == internalUpdate /\ pt1 # <<>>
        pt2 == IF writeProposed /\ fault # "proposed"
               THEN <<PropSet(pt1[1], prop, value)>>
               ELSE pt1
        ct2 == IF fault # "controlled"
               THEN PropSet(controlledTransform, prop, cv.val)
               ELSE controlledTransform
    IN [controlled |-> ct2, proposed |-> pt2, replaced |-> cv.replaced,
        ret |-> fault # "controlled",
        errs |-> cv.errs
                 \o (IF cloneFailed THEN <<"set:clone">> ELSE <<>>)
                 \o (IF writeProposed /\ fault = "proposed" THEN <<"set:proposed">> ELSE <<>>)
                 \o (IF fault = "controlled" THEN <<"set:controlled">> ELSE <<>>)]

\* An assignment through a proxy whose set trap returns false throws a
\* TypeError in strict-mode code, which ES modules and class bodies (the
\* engine and the map wrapper) are.
AssignmentThrows(ret) == ~ret

\* ------------------------------------------------------ handlers.get
\* Variant of GetTrap without lines 152-155: every read shows the
\* controlled transform.
GetTrap_Controlled(inUpdate, prop) ==
  IF ~isValidTransformProperty(prop)
  THEN [result |-> Undefined, errs |-> <<"get:invalid">>]
  ELSE [result |-> PropGet(controlledTransform, prop), errs |-> <<>>]

\* Lines 79-86 and 152-158: the get trap on a property that is neither a
\* $-property nor a method, evaluated with the given $internalUpdate.
GetTrap(inUpdate, prop) ==
  IF ~isValidTransformProperty(prop)
  THEN [result |-> Undefined, errs |-> <<"get:invalid">>]
  ELSE IF inUpdate /\ proposedTransform # <<>>
       THEN [result |-> PropGet(proposedTransform[1], prop), errs |-> <<>>]
       ELSE [result |-> PropGet(controlledTransform, prop), errs |-> <<>>]

\* Variant of SetZoomCall without the test of line 111: the controlled
\* transform is written whether zoom is declared or not.
SetZoomCall_Unguarded(z, fault) ==
  IF ~IsFinite(z)
  THEN [controlled |-> controlledTransform, proposed |-> proposedTransform,
        errs |-> <<"method:_setZoom:invalid">>]
  ELSE [controlled |-> PropSet(controlledTransform, "_zoom", z),
        proposed |->
          IF internalUpdate /\ proposedTransform # <<>>
          THEN <<PropSet(proposedTransform[1], "_zoom", z)>>
          ELSE proposedTransform,
        errs |-> <<>>]

\* Lines 99-121: the function the get trap returns for _setZoom, called
\* with z.
SetZoomCall(z, fault) ==
  IF ~IsFinite(z)
  THEN [controlled |-> controlledTransform, proposed |-> proposedTransform,
        errs |-> <<"method:_setZoom:invalid">>]
  ELSE IF internalUpdate /\ proposedTransform # <<>> /\ fault = "proposed"
       THEN [controlled |-> controlledTransform, proposed |-> proposedTransform,
             errs |-> <<"method:_setZoom">>]
       ELSE [controlled |->
               IF ~IsFinite(reactViewState["zoom"]) /\ fault # "controlled"
               THEN PropSet(controlledTransform, "_zoom", z)
               ELSE controlledTransform,
             proposed |->
               IF internalUpdate /\ proposedTransform # <<>>
               THEN <<PropSet(proposedTransform[1], "_zoom", z)>>
               ELSE proposedTransform,
             errs |->
               IF ~IsFinite(reactViewState["zoom"]) /\ fault = "controlled"
               THEN <<"method:_setZoom">>
               ELSE <<>>]

\* Lines 123-136: reading _translateCameraConstrained.
TranslateGet(fault) ==
  IF internalUpdate /\ isViewStateControlled(reactViewState) /\ proposedTransform = <<>>
  THEN IF fault = "clone"
       THEN [proposed |-> <<>>, errs |-> <<"clone">>]
       ELSE [proposed |-> <<Clone(controlledTransform)>>, errs |-> <<>>]
  ELSE [proposed |-> proposedTransform, errs |-> <<>>]

\* Variant of UnproxiedCall that runs the routine on the controlled
\* transform only.
UnproxiedCall_ControlledOnly(method, fault) ==
  IF fault = "controlled"
  THEN [ranOn |-> {}, errs |-> <<"method:unproxied">>]
  ELSE [ranOn |-> {"controlled"}, errs |-> <<>>]

\* Lines 138-150: the function the get trap returns for an unproxied
\* method, called.  The routine fills private members derived from the
\* view state properties and writes none of them (lines 23-26).
\*   ranOn   the transforms the routine has run on
UnproxiedCall(method, fault) ==
  IF proposedTransform # <<>> /\ fault = "proposed"
  THEN [ranOn |-> {}, errs |-> <<"method:unproxied">>]
  ELSE LET onProposed == IF proposedTransform # <<>> THEN {"proposed"} ELSE {}
       IN IF fault = "controlled"
          THEN [ranOn |-> onProposed, errs |-> <<"method:unproxied">>]
          ELSE [ranOn |-> onProposed \cup {"controlled"}, errs |-> <<>>]

\* ----------------------------------------------------------------- actions
ValuesOf(prop) == IF prop \in CenterProps THEN Val \X Val ELSE Val

\* The proxy once the map wrapper has created it over the engine's
\* transform and assigned the view state of the first props.
ProxyInit ==
  /\ internalUpdate = FALSE
  /\ reactViewState \in DeclaredViews
  /\ controlledTransform = applyViewStateToTransform(DefaultTransform, reactViewState)
  /\ proposedTransform = <<>>
  /\ lastOp = NoOp
  /\ overridden = FALSE
  /\ constrained = FALSE
  /\ nOps = 0

\* The camera update begins: $internalUpdate = true.
BeginEngineUpdate ==
  /\ ~internalUpdate
  /\ internalUpdate' = TRUE
  /\ lastOp' = Op("begin", "$internalUpdate", TRUE, TRUE, <<>>, FALSE)
  /\ overridden' = FALSE
  /\ constrained' = FALSE
  /\ UNCHANGED <<reactViewState, controlledTransform, proposedTransform, nOps, faults, refVars, mountVars, markerVars, partVars>>

\* The camera update ends: $internalUpdate = false and the proposed
\* transform is discarded ($proposedTransform = null).  The record of the
\* operation keeps the field the update wrote last, if it ended on a write.
EndEngineUpdate ==
  /\ internalUpdate
  /\ internalUpdate' = FALSE
  /\ proposedTransform' = <<>>
  /\ lastOp' = Op("end", IF lastOp.kind = "set" THEN lastOp.prop ELSE "$internalUpdate",
                  FALSE, TRUE, <<>>, FALSE)
  /\ overridden' = FALSE
  /\ constrained' = FALSE
  /\ UNCHANGED <<reactViewState, controlledTransform, nOps, faults, refVars, mountVars, markerVars, partVars>>

\* Lines 176-188: proxy.$reactViewState = view.
ReactViewStateSet(view, fault) ==
  [viewState |-> view,
   controlled |-> IF fault = "apply" THEN controlledTransform
                  ELSE applyViewStateToTransform(controlledTransform, view),
   ret |-> fault # "apply",
   errs |-> IF fault = "apply" THEN <<"set:$reactViewState">> ELSE <<>>]

\* The props change: the map wrapper assigns the new view state, between
\* camera updates.
SetDeclared(view, fault) ==
  /\ ~internalUpdate
  /\ nOps < MaxOps
  /\ LET r == ReactViewStateSet(view, fault)
     IN /\ reactViewState' = r.viewState
        /\ controlledTransform' = r.controlled
        /\ lastOp' = Op("declare", "$reactViewState", Undefined, r.ret, r.errs,
                        AssignmentThrows(r.ret))
  /\ nOps' = nOps + 1
  /\ UNCHANGED <<internalUpdate, proposedTransform, overridden, constrained, faults, refVars, mountVars, markerVars, partVars>>

\* proxy[prop] = value
Write(prop, value, ctorRejects, fault) ==
  /\ nOps < MaxOps
  /\ LET r == SetTrap(prop, value, ctorRejects, fault)
     IN /\ controlledTransform' = r.controlled
        /\ proposedTransform' = r.proposed
        /\ overridden' = (overridden \/ (internalUpdate /\ r.replaced))
        /\ lastOp' = Op("set", GroupOf(prop), value, r.ret, r.errs, AssignmentThrows(r.ret))
  /\ nOps' = nOps + 1
  /\ UNCHANGED <<internalUpdate, reactViewState, constrained, faults, refVars, mountVars, markerVars, partVars>>

\* proxy._setZoom(z)
SetZoom(z, fault) ==
  /\ nOps < MaxOps
  /\ LET r == SetZoomCall(z, fault)
     IN /\ controlledTransform' = r.controlled
        /\ proposedTransform' = r.proposed
        /\ lastOp' = Op("call", "_setZoom", z, Undefined, r.errs, FALSE)
  /\ nOps' = nOps + 1
  /\ UNCHANGED <<internalUpdate, reactViewState, overridden, constrained, faults, refVars, mountVars, markerVars, partVars>>

\* proxy._translateCameraConstrained (the read; the call goes to the
\* transform the read returned)
ReadTranslate(fault) ==
  /\ nOps < MaxOps
  /\ LET r == TranslateGet(fault)
     IN /\ proposedTransform' = r.proposed
        /\ lastOp' = Op("get", "_translateCameraConstrained", "engine", Undefined,
                        r.errs, FALSE)
  /\ constrained' =
       (constrained \/ (internalUpdate /\ isViewStateControlled(reactViewState)))
  /\ nOps' = nOps + 1
  /\ UNCHANGED <<internalUpdate, reactViewState, controlledTransform, overridden, faults, refVars, mountVars, markerVars, partVars>>

\* proxy[prop], read by the engine's own code inside a camera update.
EngineRead(prop) ==
  /\ internalUpdate
  /\ nOps < MaxOps
  /\ LET r == GetTrap(internalUpdate, prop)
     IN lastOp' = Op("get", GroupOf(prop), "engine", r.result, r.errs, FALSE)
  /\ nOps' = nOps + 1
  /\ UNCHANGED <<internalUpdate, reactViewState, controlledTransform,
                 proposedTransform, overridden, constrained, faults, refVars, mountVars, markerVars, partVars>>

\* proxy[prop], read by the renderer, an overlay or an event listener: the
\* map wrapper has $internalUpdate cleared while they run.
ExternalRead(prop) ==
  /\ nOps < MaxOps
  /\ LET r == GetTrap(FALSE, prop)
     IN lastOp' = Op("get", GroupOf(prop), "external", r.result, r.errs, FALSE)
  /\ nOps' = nOps + 1
  /\ UNCHANGED <<internalUpdate, reactViewState, controlledTransform,
                 proposedTransform, overridden, constrained, faults, refVars, mountVars, markerVars, partVars>>

ProxyNext ==
  \/ BeginEngineUpdate
  \/ EndEngineUpdate
  \/ \E view \in DeclaredViews, fault \in FaultsOf({"apply"}) :
       SetDeclared(view, fault)
  \/ \E prop \in CenterProps :
       \E value \in ValuesOf(prop), ctorRejects \in BOOLEAN,
          fault \in FaultsOf({"clone", "proposed", "controlled"}) :
         Write(prop, value, ctorRejects, fault)
  \/ \E prop \in ScalarProps \cup {SymbolProp} :
       \E value \in ValuesOf(prop),
          fault \in FaultsOf({"clone", "proposed", "controlled"}) :
         Write(prop, value, FALSE, fault)
  \/ \E z \in Val \cup {NaN}, fault \in FaultsOf({"proposed", "controlled"}) :
       SetZoom(z, fault)
  \/ \E fault \in FaultsOf({"clone"}) : ReadTranslate(fault)

\* proxy[method](...) for an unproxied method
CallUnproxied(method, fault) ==
  /\ nOps < MaxOps
  /\ LET r == UnproxiedCall(method, fault)
     IN lastOp' = Op("recompute", method, Undefined, r.ranOn, r.errs, FALSE)
  /\ nOps' = nOps + 1
  /\ UNCHANGED <<internalUpdate, reactViewState, controlledTransform,
                 proposedTransform, overridden, constrained, faults, refVars, mountVars, markerVars, partVars>>

RecomputeNext ==
  \E method \in unproxiedMethods, fault \in FaultsOf({"proposed", "controlled"}) :
    CallUnproxied(method, fault)

ReadNext ==
  \/ \E prop \in AllProps : EngineRead(prop)
  \/ \E prop \in AllProps : ExternalRead(prop)

\* --------------------------------------------------------------- createRef
\* Methods that may break the react binding if called directly.
skipMethods ==
  {"setMaxBounds", "setMinZoom", "setMaxZoom", "setMinPitch", "setMaxPitch",
   "setRenderWorldCopies", "setProjection", "setStyle", "addSource",
   "removeSource", "addLayer", "removeLayer", "setLayerZoomRange", "setFilter",
   "setPaintProperty", "setLayoutProperty", "setLight", "setTerrain", "setFog",
   "remove"}

\* The keys of the ref literal.
OwnRefKeys ==
  {"getMap", "getCenter", "getZoom", "getBearing", "getPitch", "getPadding",
   "getBounds", "project", "unproject", "queryTerrainElevation",
   "queryRenderedFeatures"}

excludedMethods == {"fire", "setEventedParent", "constructor"}

\* The members a native map may carry: the skipped methods, two methods the
\* ref overrides, two it forwards, an excluded one, a private one and a
\* member that is no function.
MapMembers ==
  skipMethods \cup {"getCenter", "project", "flyTo", "on", "fire", "_render", "version"}

\* key[0] === '_'
IsPrivate(key) == key \in {"_render"}
\* typeof map[key] === 'function'
IsFunction(key) == key # "version"

getMethodNames(members) ==
  {key \in members : ~IsPrivate(key) /\ key \notin excludedMethods /\ IsFunction(key)}

\* Variant of BoundKeys without the skipMethods test of line 240.
BoundKeys_NoSkip(members, validateMethods) ==
  {key \in getMethodNames(members) :
     key \notin OwnRefKeys /\ ~(validateMethods /\ ~IsFunction(key))}

\* Lines 236-274: the keys the binding loop adds to the ref.
BoundKeys(members, validateMethods) ==
  {key \in getMethodNames(members) :
     /\ key \notin OwnRefKeys
     /\ key \notin skipMethods
     /\ ~(validateMethods /\ ~IsFunction(key))}

NullRef == [null |-> TRUE, keys |-> {}, map |-> {}]

\* createRef(mapInstance, {validateMethods}).  instance tells what the
\* wrapper holds: "ok", or what is missing.  The ref keeps the native map
\* for getMap().
createRef(instance, members, validateMethods) ==
  IF instance # "ok"
  THEN NullRef
  ELSE [null |-> FALSE,
        keys |-> OwnRefKeys \cup BoundKeys(members, validateMethods),
        map |-> members]

\* ref.getMap()
getMap(r) == r.map

\* The engine (or a plugin) defines a member on the native map.
DefineMember(key) ==
  /\ ref = <<>>
  /\ Cardinality(mapMethods) < MaxMethods
  /\ key \notin mapMethods
  /\ mapMethods' = mapMethods \cup {key}
  /\ UNCHANGED <<ref, proxyVars, mountVars, markerVars, partVars>>

CreateRef(instance, validateMethods) ==
  /\ ref = <<>>
  /\ ref' = <<createRef(instance, mapMethods, validateMethods)>>
  /\ UNCHANGED <<mapMethods, proxyVars, mountVars, markerVars, partVars>>

RefNext ==
  \/ \E key \in MapMembers : DefineMember(key)
  \/ \E instance \in {"ok", "noInstance", "noMap", "noTransform"},
        validateMethods \in BOOLEAN :
       CreateRef(instance, validateMethods)

\* ------------------------------------------------------ the ref's methods
\* The getters the ref overrides, with the transform property each reads.
RefGetters == {"getCenter", "getZoom", "getBearing", "getPitch", "getPadding"}

GetterProp(method) ==
  CASE method = "getCenter" -> "center"
    [] method = "getZoom" -> "zoom"
    [] method = "getBearing" -> "bearing"
    [] method = "getPitch" -> "pitch"
    [] OTHER -> "padding"

\* The methods the ref runs inside withTransformSwitch.
SwitchedMethods ==
  {"project", "unproject", "queryTerrainElevation", "queryRenderedFeatures"}

\* The camera a projection or a query is computed from, as read from a
\* transform: the engine's math is a function of these members.
CameraOf(tr) ==
  <<PropGet(tr, "center"), PropGet(tr, "zoom"), PropGet(tr, "pitch"),
    PropGet(tr, "bearing"), PropGet(tr, "padding"), PropGet(tr, "_centerAltitude")>>

\* The same camera as the native map's own methods read it from
\* map.transform, which is the proxy.
ProxyRead(prop) == GetTrap(internalUpdate, prop).result

CameraOfProxy ==
  <<ProxyRead("center"), ProxyRead("zoom"), ProxyRead("pitch"),
    ProxyRead("bearing"), ProxyRead("padding"), ProxyRead("_centerAltitude")>>

\* mapInstance.transform: the wrapper's committed camera.
InstanceTransform == controlledTransform

\* Variant of withTransformSwitch without the assignment of line 94: fn
\* runs on the native map as it is.
withTransformSwitch_NoSwitch(fault) ==
  IF fault = "fn"
  THEN [result |-> Undefined, errs |-> <<"transform_operation">>]
  ELSE [result |-> CameraOfProxy, errs |-> <<>>]

\* Lines 85-119: map.transform is mapInstance.transform while fn runs, and
\* the original transform afterwards; undefined if fn throws.
withTransformSwitch(fault) ==
  IF fault = "fn"
  THEN [result |-> Undefined, errs |-> <<"transform_operation">>]
  ELSE [result |-> CameraOf(InstanceTransform), errs |-> <<>>]

\* Lines 91-111: map.transform after withTransformSwitch, by what it was
\* before: the finally block assigns the original transform back if it is
\* truthy.
TransformAfterSwitch(original) ==
  IF original = "null" THEN "instance" ELSE original

\* Lines 125-207: a getter reads mapInstance.transform and falls back to
\* the native map's getter if that throws.
RefGetter(method, fault) ==
  IF fault = "getter"
  THEN [result |-> IF method = "getBounds" THEN CameraOfProxy
                   ELSE ProxyRead(GetterProp(method)),
        errs |-> <<"getter">>]
  ELSE [result |-> IF method = "getBounds" THEN CameraOf(InstanceTransform)
                   ELSE PropGet(InstanceTransform, GetterProp(method)),
        errs |-> <<>>]

\* Lines 209-233: project, unproject, queryTerrainElevation and
\* queryRenderedFeatures.
RefQuery(method, fault) ==
  IF method = "queryTerrainElevation" /\ method \notin mapMethods
  THEN [result |-> Undefined, errs |-> <<"method_unavailable">>]
  ELSE withTransformSwitch(fault)

\* ref.getCenter(), ..., ref.getBounds(), called by the application, an
\* overlay or an event listener, between or inside camera updates.
CallGetter(method, fault) ==
  /\ ref # <<>>
  /\ nOps < MaxOps
  /\ LET r == RefGetter(method, fault)
     IN lastOp' = Op("ref", method, "ref", r.result, r.errs, FALSE)
  /\ nOps' = nOps + 1
  /\ UNCHANGED <<internalUpdate, reactViewState, controlledTransform,
                 proposedTransform, overridden, constrained, faults, refVars, mountVars, markerVars, partVars>>

\* ref.project(lnglat), ...
CallQuery(method, fault) ==
  /\ ref # <<>>
  /\ nOps < MaxOps
  /\ LET r == RefQuery(method, fault)
     IN lastOp' = Op("ref", method, "ref", r.result, r.errs, FALSE)
  /\ mapTransform' =
       IF method = "queryTerrainElevation" /\ method \notin mapMethods
       THEN mapTransform
       ELSE TransformAfterSwitch(mapTransform)
  /\ nOps' = nOps + 1
  /\ UNCHANGED <<internalUpdate, reactViewState, controlledTransform,
                 proposedTransform, overridden, constrained, faults, refVars,
                 mountVars, markerVars, globalsSt, layerSt, eqSt>>

\* Code that holds the native map (ref.getMap(), line 122) assigns its
\* transform member: the proxy, or nothing.
AssignTransform(value) ==
  /\ value # mapTransform
  /\ mapTransform' = value
  /\ UNCHANGED <<proxyVars, refVars, mountVars, markerVars, globalsSt, layerSt, eqSt>>

SwitchNext == \E value \in {"proxy", "null"} : AssignTransform(value)

HandleNext ==
  \/ \E method \in RefGetters \cup {"getBounds"}, fault \in FaultsOf({"getter"}) :
       CallGetter(method, fault)
  \/ \E method \in SwitchedMethods, fault \in FaultsOf({"fn"}) :
       CallQuery(method, fault)

\* ----------------------------------------------------------- camera events
\* The engine's camera events the map wrapper passes on to the application,
\* each in its three phases.
CameraEvents ==
  {"movestart", "move", "moveend", "zoomstart", "zoom", "zoomend",
   "dragstart", "drag", "dragend", "rotatestart", "rotate", "rotateend",
   "pitchstart", "pitch", "pitchend"}

\* transformToViewState(tr): the view state of a transform.
transformToViewState(tr) == [f \in ViewFields |-> tr[MemberOf(f)]]

\* Lines 92-94: proxy.$proposedTransform, whatever $internalUpdate is.
ProposedGet == proposedTransform

\* The view state of an event: the proposed transform if there is one,
\* the committed one otherwise.
EventViewState ==
  IF ProposedGet # <<>>
  THEN transformToViewState(ProposedGet[1])
  ELSE transformToViewState(controlledTransform)

\* The map wrapper passes a camera event on to the application, with the
\* view state added.
EmitEvent(type) ==
  /\ nOps < MaxOps
  /\ lastOp' = Op("event", type, Undefined, EventViewState, <<>>, FALSE)
  /\ nOps' = nOps + 1
  /\ UNCHANGED <<internalUpdate, reactViewState, controlledTransform,
                 proposedTransform, overridden, constrained, faults, refVars,
                 mountVars, markerVars, partVars>>

EventNext == \E type \in CameraEvents : EmitEvent(type)

\* -------------------------------------------------------- the Map component
\* The values of the id prop, and the props of a component that is not
\* mounted.
Ids == {"a", "b"}
NoProps == [reuseMaps |-> FALSE, id |-> "a", view |-> 0]

\* What one step of the component did:
\*   run, alive   the run of the construction effect it belongs to, and
\*                whether that run (for the plugin: its component) was live
\*   ctrl         the controller it constructed, reused or tore down
\*   reuse        the reuseMaps prop of that run
\*   pooled       the controller the pool held under the run's id
\*   fresh        a new controller was constructed
\*   setPropsOn   the status of the controller setProps was called on
\*   cleanup      what the effect's cleanup called on its controller
\*   globals      setGlobals was called
\*   notified     handleError was called
\*   rtlHandler   onRTLPluginError was called
\*   calls        the engine calls setProps issued, by field
Ev(kind) ==
  [kind |-> kind, run |-> 0, alive |-> TRUE, ctrl |-> 0, reuse |-> FALSE,
   pooled |-> 0, fresh |-> FALSE, setPropsOn |-> "none", cleanup |-> "none",
   globals |-> FALSE, notified |-> FALSE, rtlHandler |-> FALSE, calls |-> {}]

\* Lines 181-189: a run of the construction effect: its closure (isMounted,
\* mapbox, props) and its module load.
NewRun(reuse, id, view) ==
  [isMounted |-> TRUE, mapbox |-> 0, reuseMaps |-> reuse, id |-> id,
   view |-> view, load |-> "pending", failed |-> "no"]

\* A run after its cleanup: isMounted is false, and nothing else of its
\* closure is read again but by the settling of its load.
Retire(run) ==
  [NewRun(FALSE, "a", 0) EXCEPT !.isMounted = FALSE, !.load = run.load]

\* What the module load and the construction that follows it can come to.
OutcomesOf ==
  IF faults
  THEN {"ok", "reject", "noContainer", "nullModule", "noMapCtor", "ctorThrows",
        "mountThrows"}
  ELSE {"ok"}

\* A controller after destroy().
Destroyed == [status |-> "destroyed", declared |-> 0]

\* Lines 252-260: the layout effect calls setProps on the mapInstance of
\* the render.
SetPropsOn(instance) ==
  IF instance = 0 THEN "none" ELSE controllers[instance].status

\* The reactive fields of the props: the view state stands for them.
ReactiveFields == {"view"}

\* The props a controller holds from its construction or its last
\* setProps.
HeldProps(c) == [view |-> c.declared]

\* Variant of SetPropsCalls without the diff: every field is written to
\* the engine on every setProps.
SetPropsCalls_All(ctrls, instance, next) ==
  IF instance # 0 /\ ctrls[instance].status # "destroyed"
  THEN ReactiveFields
  ELSE {}

\* setProps(props): the fields whose value differs from the held props;
\* one engine call is issued for each of them.
SetPropsCalls(ctrls, instance, next) ==
  IF instance # 0 /\ ctrls[instance].status # "destroyed"
  THEN {f \in ReactiveFields : HeldProps(ctrls[instance])[f] # next[f]}
  ELSE {}

\* setProps(props): the controller holds the new props.
AfterSetProps(ctrls, instance, next) ==
  IF instance # 0 /\ ctrls[instance].status # "destroyed"
  THEN [ctrls EXCEPT ![instance].declared = next.view]
  ELSE ctrls

\* Lines 235-249: the cleanup of run r of the construction effect.
\* recycle() puts the controller into the pool under the run's id.
Cleanup(ctrls, r, fault) ==
  LET run == runs[r]
      c == run.mapbox
  IN IF c = 0
     THEN [ctrls |-> ctrls, pool |-> pool, called |-> "none", ctrl |-> 0]
     ELSE IF fault = "unmountThrows"
          THEN [ctrls |-> ctrls, pool |-> pool, called |-> "skipped", ctrl |-> c]
          ELSE IF run.reuseMaps
               THEN [ctrls |-> [ctrls EXCEPT ![c].status = "pooled"],
                     pool |-> [pool EXCEPT ![run.id] = c],
                     called |-> "recycle", ctrl |-> c]
               ELSE [ctrls |-> [ctrls EXCEPT ![c] = Destroyed],
                     pool |-> pool, called |-> "destroy", ctrl |-> c]

\* Variant of Reuse that never finds a controller.
Reuse_Miss(run) == 0

\* Lines 209-211: Mapbox.reuse(props, container): the controller the pool
\* holds under the id, or none.
Reuse(run) == IF run.reuseMaps THEN pool[run.id] ELSE 0

\* Variant of Discarded without the test of line 191.
Discarded_Never(r) == FALSE

\* Lines 191-193, 224, 230: a load that settles after its run was cleaned
\* up is discarded.
Discarded(r) == ~runs[r].isMounted

\* Variant of setGlobalsReturns in which setGlobals waits for the plugin.
setGlobalsReturns_WhenLoaded(pl) == pl.status # "loading"

\* set-globals.ts lines 110-113: setGlobals does not await the promise of
\* setRTLTextPlugin, so it returns whatever the state of the plugin load.
setGlobalsReturns(pl) == TRUE

\* set-globals.ts lines 116-174: the plugin load begins if the plugin is
\* wanted, the library has the plugin methods and the plugin's status is
\* 'unavailable' (start tells the first two).
AfterSetGlobals(pl, start) ==
  IF start /\ pl.status = "unavailable"
  THEN [status |-> "loading", orphaned |-> FALSE]
  ELSE pl

\* Lines 190-233: the load of the live run r settles with the given
\* outcome.
\*   early      the load rejected, or the container, the module or its Map
\*              constructor is missing: handleError before setGlobals
\*   found      the controller Mapbox.reuse returned
\*   built      the run has got a controller (lines 209-221)
\*   failed     handleError was called (lines 223-232)
\*   kind       "construction" if what failed is the container, the module,
\*              its Map constructor or the construction; "other" for a
\*              rejected load and a failing onMapMount
Construct(r, outcome, start) ==
  LET run == runs[r]
      early == outcome \in {"reject", "noContainer", "nullModule", "noMapCtor"}
      pl == IF early THEN plugin ELSE AfterSetGlobals(plugin, start)
      waits == ~early /\ ~setGlobalsReturns(pl)
      found == Reuse(run)
      ctorFails == found = 0 /\ outcome = "ctorThrows"
      built == ~early /\ ~waits /\ ~ctorFails
      failed == early \/ (~waits /\ (ctorFails \/ outcome = "mountThrows"))
      c == IF found # 0 THEN found ELSE Len(controllers) + 1
      attached == [status |-> "attached", declared |-> run.view]
  IN [mapbox |-> IF built THEN c ELSE 0,
      ctrls |-> IF ~built THEN controllers
                ELSE IF found # 0 THEN [controllers EXCEPT ![c] = attached]
                ELSE Append(controllers, attached),
      pool |-> IF built /\ found # 0 THEN [pool EXCEPT ![run.id] = 0] ELSE pool,
      plugin |-> pl,
      mapInstance |-> IF built THEN c ELSE mapInstance,
      isLoading |-> IF waits THEN isLoading ELSE FALSE,
      error |-> IF failed THEN TRUE ELSE error,
      failed |-> failed,
      kind |-> IF ~failed THEN "no"
               ELSE IF outcome \in {"reject", "mountThrows"} THEN "other"
               ELSE "construction",
      globals |-> ~early]

\* The component mounts: first render (mapInstance null, isLoading true,
\* no error) and first run of the construction effect.
Mount(reuse, id, view) ==
  /\ ~mounted
  /\ Len(runs) < MaxRuns
  /\ mounted' = TRUE
  /\ props' = [reuseMaps |-> reuse, id |-> id, view |-> view]
  /\ mapInstance' = 0
  /\ isLoading' = TRUE
  /\ error' = FALSE
  /\ renderedError' = FALSE
  /\ dirty' = FALSE
  /\ runs' = Append(runs, NewRun(reuse, id, view))
  /\ lastEv' = [Ev("mount") EXCEPT !.run = Len(runs) + 1, !.reuse = reuse]
  /\ UNCHANGED <<controllers, pool, plugin, proxyVars, refVars, markerVars, partVars>>

\* A render that changes a dependency of the construction effect (line
\* 250): the layout effect (setProps), the cleanup of the current run, the
\* error-reset effect (lines 174-179) and a new run of the construction
\* effect (lines 186-189), in React's order.
EffectRerun(kind, reuse, id, fault) ==
  /\ LET r == Len(runs)
         cl == Cleanup(AfterSetProps(controllers, mapInstance, props), r, fault)
     IN /\ controllers' = cl.ctrls
        /\ pool' = cl.pool
        /\ runs' = Append([runs EXCEPT ![r] = Retire(@)],
                          NewRun(reuse, id, props.view))
        /\ lastEv' = [Ev(kind) EXCEPT !.run = r + 1, !.ctrl = cl.ctrl,
                                      !.reuse = runs[r].reuseMaps,
                                      !.setPropsOn = SetPropsOn(mapInstance),
                                      !.calls = SetPropsCalls(controllers, mapInstance, props),
                                      !.cleanup = cl.called]
  /\ props' = [props EXCEPT !.reuseMaps = reuse, !.id = id]
  /\ error' = FALSE
  /\ isLoading' = TRUE
  /\ renderedError' = error
  /\ dirty' = (error \/ ~isLoading)
  /\ UNCHANGED <<mounted, mapInstance, plugin, proxyVars, refVars, markerVars, partVars>>

\* A render with a changed reuseMaps or id (mapLib changes the same way).
ChangeProps(reuse, id, fault) ==
  /\ mounted
  /\ Len(runs) < MaxRuns
  /\ <<reuse, id>> # <<props.reuseMaps, props.id>>
  /\ EffectRerun("change", reuse, id, fault)

\* A render with the same mapLib, reuseMaps and id and an onError prop that
\* is another function than the last render's: handleError is made anew
\* (useCallback over props.onError, lines 145-165) and is a dependency of
\* the construction effect.
ChangeOnError(fault) ==
  /\ mounted
  /\ Len(runs) < MaxRuns
  /\ EffectRerun("handler", props.reuseMaps, props.id, fault)

\* A render after a state update, with a new view state in the props or
\* with another new prop that no effect depends on (children, a style):
\* the layout effect (setProps) and, if error differs from the last
\* render's, the error-reset effect.
Rerender(view) ==
  /\ mounted
  /\ props' = [props EXCEPT !.view = view]
  /\ controllers' = AfterSetProps(controllers, mapInstance, props')
  /\ IF error /\ error # renderedError
     THEN /\ error' = FALSE
          /\ isLoading' = TRUE
          /\ dirty' = TRUE
     ELSE /\ dirty' = FALSE
          /\ UNCHANGED <<error, isLoading>>
  /\ renderedError' = error
  /\ lastEv' = [Ev("render") EXCEPT !.run = Len(runs),
                                    !.setPropsOn = SetPropsOn(mapInstance),
                                    !.calls = SetPropsCalls(controllers, mapInstance, props')]
  /\ UNCHANGED <<mounted, mapInstance, runs, pool, plugin, proxyVars, refVars, markerVars, partVars>>

\* The component unmounts: the cleanup of the current run; the
\* component's state is gone.
Unmount(fault) ==
  /\ mounted
  /\ LET r == Len(runs)
         cl == Cleanup(controllers, r, fault)
     IN /\ controllers' = cl.ctrls
        /\ pool' = cl.pool
        /\ runs' = [runs EXCEPT ![r] = Retire(@)]
        /\ lastEv' = [Ev("unmount") EXCEPT !.run = r, !.ctrl = cl.ctrl,
                                           !.reuse = runs[r].reuseMaps,
                                           !.cleanup = cl.called]
  /\ mounted' = FALSE
  /\ props' = NoProps
  /\ mapInstance' = 0
  /\ isLoading' = TRUE
  /\ error' = FALSE
  /\ renderedError' = FALSE
  /\ dirty' = FALSE
  /\ plugin' = IF plugin.status = "loading"
               THEN [plugin EXCEPT !.orphaned = TRUE]
               ELSE plugin
  /\ UNCHANGED <<proxyVars, refVars, markerVars, partVars>>

\* The module load of run r settles (lines 189-233).
Settle(r, outcome, start) ==
  /\ r \in 1..Len(runs)
  /\ runs[r].load = "pending"
  /\ IF Discarded(r)
     THEN /\ runs' = [runs EXCEPT ![r].load = "settled"]
          /\ lastEv' = [Ev("settle") EXCEPT !.run = r, !.alive = FALSE]
          /\ UNCHANGED <<mapInstance, isLoading, error, dirty, controllers, pool,
                         plugin>>
     ELSE LET c == Construct(r, outcome, start)
          IN /\ runs' = [runs EXCEPT ![r].load = "settled", ![r].mapbox = c.mapbox,
                                     ![r].failed = c.kind]
             /\ mapInstance' = c.mapInstance
             /\ isLoading' = c.isLoading
             /\ error' = c.error
             /\ dirty' = (dirty \/ c.mapInstance # mapInstance
                                \/ c.isLoading # isLoading \/ c.error # error)
             /\ controllers' = c.ctrls
             /\ pool' = c.pool
             /\ plugin' = c.plugin
             /\ lastEv' = [Ev("settle") EXCEPT !.run = r, !.alive = runs[r].isMounted,
                                               !.ctrl = c.mapbox,
                                               !.reuse = runs[r].reuseMaps,
                                               !.pooled = pool[runs[r].id],
                                               !.fresh = Len(c.ctrls) # Len(controllers),
                                               !.globals = c.globals,
                                               !.notified = c.failed]
  /\ UNCHANGED <<mounted, props, renderedError, proxyVars, refVars, markerVars, partVars>>

\* The plugin load ends: the callback reports success or an error, or the
\* timeout comes first (set-globals.ts lines 152-194).  The application
\* has passed an onRTLPluginError prop.
PluginSettle(outcome) ==
  /\ plugin.status = "loading"
  /\ plugin' = [plugin EXCEPT !.status = IF outcome = "ok" THEN "loaded" ELSE "failed"]
  /\ lastEv' = [Ev("plugin") EXCEPT !.alive = ~plugin.orphaned,
                                    !.rtlHandler = (outcome # "ok")]
  /\ UNCHANGED <<mounted, props, mapInstance, isLoading, error, renderedError,
                 dirty, runs, controllers, pool, proxyVars, refVars, markerVars, partVars>>

MountNext ==
  \/ \E reuse \in BOOLEAN, id \in Ids, view \in Val : Mount(reuse, id, view)
  \/ \E reuse \in BOOLEAN, id \in Ids, fault \in FaultsOf({"unmountThrows"}) :
       ChangeProps(reuse, id, fault)
  \/ \E fault \in FaultsOf({"unmountThrows"}) : ChangeOnError(fault)
  \/ \E view \in Val : Rerender(view)
  \/ \E fault \in FaultsOf({"unmountThrows"}) : Unmount(fault)
  \/ \E r \in 1..MaxRuns, outcome \in OutcomesOf, start \in BOOLEAN :
       Settle(r, outcome, start)
  \/ \E outcome \in {"ok", "error", "timeout"} : PluginSettle(outcome)

\* ----------------------------------------------------- the Marker component
\* A point as the offset prop gives it: absent, an array [x, y] or an
\* object {x, y}.
Point(form, x, y) == [form |-> form, x |-> x, y |-> y]
NoPoint == Point("none", 0, 0)
Offsets ==
  {NoPoint, Point("array", 0, 0), Point("array", 0, 1), Point("object", 0, 1)}

\* deep-equal.ts lines 9-15: arePointsEqual(a, b).
PointX(a) == IF a.form = "array" THEN a.x ELSE IF a.form # "none" THEN a.x ELSE 0
PointY(a) == IF a.form = "array" THEN a.y ELSE IF a.form # "none" THEN a.y ELSE 0
arePointsEqual(a, b) == PointX(a) = PointX(b) /\ PointY(a) = PointY(b)

\* The props of a Marker, with the defaults of lines 436-445 filled in
\* (draggable false, popup null, rotation 0, alignments 'auto').  handlers
\* names the functions passed as onClick, onDragStart, onDrag and
\* onDragEnd: 0 for none, otherwise the functions of one render.
MarkerFieldValues(f) ==
  CASE f \in {"longitude", "latitude"} -> Val
    [] f = "offset" -> Offsets
    [] f = "draggable" -> BOOLEAN
    [] f = "rotation" -> {0, 30}
    [] f \in {"rotationAlignment", "pitchAlignment"} -> {"auto", "map"}
    [] f = "popup" -> {"null", "popup"}
    [] OTHER -> 0..2

MarkerProps ==
  [longitude : MarkerFieldValues("longitude"),
   latitude : MarkerFieldValues("latitude"),
   offset : MarkerFieldValues("offset"),
   draggable : MarkerFieldValues("draggable"),
   rotation : MarkerFieldValues("rotation"),
   rotationAlignment : MarkerFieldValues("rotationAlignment"),
   pitchAlignment : MarkerFieldValues("pitchAlignment"),
   popup : MarkerFieldValues("popup"),
   handlers : MarkerFieldValues("handlers")]

NoMarkerProps ==
  [longitude |-> 0, latitude |-> 0, offset |-> NoPoint, draggable |-> FALSE,
   rotation |-> 0, rotationAlignment |-> "auto", pitchAlignment |-> "auto",
   popup |-> "null", handlers |-> 0]

\* The props of a re-render: the parent changes one of the marker's fields
\* or none, and passes any handlers.
NextMarkerProps(p) ==
  UNION {{[p EXCEPT ![f] = v, !.handlers = h] :
            v \in MarkerFieldValues(f), h \in MarkerFieldValues("handlers")} :
         f \in DOMAIN p \ {"handlers"}}

\* Lines 398-399: new mapLib.Marker(options) and setLngLat.  The marker
\* takes offset, draggable, rotation and the alignments from its options;
\* it has no popup yet.
NewMarker(p) ==
  [lng |-> p.longitude, lat |-> p.latitude,
   offset |-> Point("object", PointX(p.offset), PointY(p.offset)),
   offsetId |-> 0, draggable |-> p.draggable, rotation |-> p.rotation,
   rotationAlignment |-> p.rotationAlignment,
   pitchAlignment |-> p.pitchAlignment, popup |-> "undefined"]

MarkerSetters ==
  {"setLngLat", "setOffset", "setDraggable", "setRotation",
   "setRotationAlignment", "setPitchAlignment", "setPopup"}

\* Variant of Differs that compares the offset by reference: the prop is
\* never the marker's own object.
Differs_ByReference(m, p, setter) ==
  CASE setter = "setLngLat" -> m.lng # p.longitude \/ m.lat # p.latitude
    [] setter = "setOffset" -> p.offset.form # "none"
    [] setter = "setDraggable" -> m.draggable # p.draggable
    [] setter = "setRotation" -> m.rotation # p.rotation
    [] setter = "setRotationAlignment" -> m.rotationAlignment # p.rotationAlignment
    [] setter = "setPitchAlignment" -> m.pitchAlignment # p.pitchAlignment
    [] OTHER -> m.popup # p.popup

\* Lines 454-475: the test before each setter.
Differs(m, p, setter) ==
  CASE setter = "setLngLat" -> m.lng # p.longitude \/ m.lat # p.latitude
    [] setter = "setOffset" ->
         p.offset.form # "none" /\ ~arePointsEqual(m.offset, p.offset)
    [] setter = "setDraggable" -> m.draggable # p.draggable
    [] setter = "setRotation" -> m.rotation # p.rotation
    [] setter = "setRotationAlignment" -> m.rotationAlignment # p.rotationAlignment
    [] setter = "setPitchAlignment" -> m.pitchAlignment # p.pitchAlignment
    [] OTHER -> m.popup # p.popup

\* The setters a render calls.
SettersCalled(m, p) == {setter \in MarkerSetters : Differs(m, p, setter)}

\* The marker after the setters were called with the values of the props.
\* setOffset stores a new point object.
AfterSetters(m, p, called) ==
  [lng |-> IF "setLngLat" \in called THEN p.longitude ELSE m.lng,
   lat |-> IF "setLngLat" \in called THEN p.latitude ELSE m.lat,
   offset |-> IF "setOffset" \in called
              THEN Point("object", PointX(p.offset), PointY(p.offset))
              ELSE m.offset,
   offsetId |-> IF "setOffset" \in called THEN m.offsetId + 1 ELSE m.offsetId,
   draggable |-> IF "setDraggable" \in called THEN p.draggable ELSE m.draggable,
   rotation |-> IF "setRotation" \in called THEN p.rotation ELSE m.rotation,
   rotationAlignment |-> IF "setRotationAlignment" \in called
                         THEN p.rotationAlignment ELSE m.rotationAlignment,
   pitchAlignment |-> IF "setPitchAlignment" \in called
                      THEN p.pitchAlignment ELSE m.pitchAlignment,
   popup |-> IF "setPopup" \in called THEN p.popup ELSE m.popup]

\* Variant of ThisRefAfterRender without the assignment of line 483.
ThisRefAfterRender_Stale(p) == thisRef

\* Line 483: thisRef.current.props = props.
ThisRefAfterRender(p) == p

MarkerEvents == {"click", "dragstart", "drag", "dragend"}

\* What one step of the Marker did: the setters it called, the event that
\* was fired and the handlers that were invoked.
MEv(kind, called, event, invoked) ==
  [kind |-> kind, called |-> called, event |-> event, invoked |-> invoked]

\* The first render: the marker is created (useMemo, lines 386-426) and
\* the body of the render runs on it.
MarkerMount(p) ==
  /\ marker = <<>>
  /\ LET m == NewMarker(p)
         called == SettersCalled(m, p)
     IN /\ marker' = <<AfterSetters(m, p, called)>>
        /\ markerEv' = MEv("mount", called, "", 0)
  /\ thisRef' = ThisRefAfterRender(p)
  /\ rendered' = p
  /\ UNCHANGED <<nRenders, proxyVars, refVars, mountVars, partVars>>

\* A re-render with props p (lines 436-484).
MarkerRender(p) ==
  /\ marker # <<>>
  /\ nRenders < MaxRenders
  /\ LET called == SettersCalled(marker[1], p)
     IN /\ marker' = <<AfterSetters(marker[1], p, called)>>
        /\ markerEv' = MEv("render", called, "", 0)
  /\ thisRef' = ThisRefAfterRender(p)
  /\ rendered' = p
  /\ nRenders' = nRenders + 1
  /\ UNCHANGED <<proxyVars, refVars, mountVars, partVars>>

\* Lines 401-423: the listeners registered at creation call the handler of
\* thisRef.current.props, if there is one.
MarkerFire(event) ==
  /\ marker # <<>>
  /\ markerEv' = MEv("fire", {}, event, thisRef.handlers)
  /\ UNCHANGED <<marker, thisRef, rendered, nRenders, proxyVars, refVars, mountVars, partVars>>

\* The props of the first render: the defaults with one field given.
MountMarkerProps == NextMarkerProps(NoMarkerProps)

MarkerNext ==
  \/ \E p \in MountMarkerProps : MarkerMount(p)
  \/ \E p \in NextMarkerProps(rendered) : MarkerRender(p)
  \/ \E event \in MarkerEvents : MarkerFire(event)

\* ---------------------------------------------------------------- setGlobals
\* set-globals.ts lines 38-44.
globalSettings ==
  <<"baseApiUrl", "maxParallelImageRequests", "workerClass", "workerCount",
    "workerUrl">>

GlobalKeys == {globalSettings[i] : i \in DOMAIN globalSettings}

\* The values a prop can hold, by their type: a number with its value and
\* whether it is an integer, a string with its length, null, undefined and
\* an object.
GVal(t, n, int) == [t |-> t, n |-> n, int |-> int]
GlobalValues ==
  {GVal("undefined", 0, FALSE), GVal("null", 0, FALSE), GVal("number", 0, TRUE),
   GVal("number", 2, TRUE), GVal("number", 2, FALSE), GVal("string", 0, FALSE),
   GVal("string", 1, FALSE)}

\* What the engine module holds for a setting nobody has written.
EngineDefault == GVal("default", 0, FALSE)

\* The props that hold no, one or two of the global settings.
GlobalProps ==
  UNION {[K -> GlobalValues] :
           K \in {{}} \cup {{k1, k2} : k1 \in GlobalKeys, k2 \in GlobalKeys}}

\* Variant of validateGlobalSetting that accepts every value.
validateGlobalSetting_Any(key, value) == TRUE

\* Lines 57-70.
validateGlobalSetting(key, value) ==
  CASE key \in {"maxParallelImageRequests", "workerCount"} ->
         value.t = "number" /\ value.n > 0 /\ value.int
    [] key \in {"baseApiUrl", "workerUrl"} -> value.t = "string" /\ value.n > 0
    [] key = "workerClass" -> value.t \notin {"null", "undefined"}
    [] OTHER -> TRUE

\* Lines 84-107: the loop over globalSettings.  fault "assign": the module
\* rejects the assignment (a frozen module object).
\*   module   the settings of the engine module after the loop
\*   errs     the keys reported to onError, in order
SettingsLoop(module, gprops, onError, fault) ==
  LET invalid(k) == k \in DOMAIN gprops /\ ~validateGlobalSetting(k, gprops[k])
      valid(k) == k \in DOMAIN gprops /\ validateGlobalSetting(k, gprops[k])
  IN [module |-> [k \in GlobalKeys |->
                    IF valid(k) /\ fault # "assign" THEN gprops[k] ELSE module[k]],
      errs |-> IF onError
               THEN SelectSeq(globalSettings,
                              LAMBDA k : invalid(k) \/ (valid(k) /\ fault = "assign"))
               ELSE <<>>]

\* Variant of Delivered without the try block of lines 185-189: an
\* exception of onRTLPluginError ends the catch block.
Delivered_Unguarded(g) ==
  [g EXCEPT !.toHandler = @ + (IF g.rtlHandler # "absent" THEN 1 ELSE 0),
            !.toOnError =
               @ + (IF g.onError /\ g.rtlHandler # "throws" THEN 1 ELSE 0)]

\* Lines 176-193: the catch block of setRTLTextPlugin delivers the error to
\* onRTLPluginError, if given, and to onError, if given; an exception of
\* the former is swallowed.
Delivered(g) ==
  [g EXCEPT !.toHandler = @ + (IF g.rtlHandler # "absent" THEN 1 ELSE 0),
            !.toOnError = @ + (IF g.onError THEN 1 ELSE 0)]

\* Variant of PluginStart without the status test of line 147.
PluginStart_AnyStatus(g, fault) ==
  IF g.rtl = "false" THEN g
  ELSE IF g.methods # "both"
       THEN [g EXCEPT !.toOnError = IF g.onError THEN 1 ELSE 0]
       ELSE IF fault = "status"
            THEN Delivered(g)
            ELSE [g EXCEPT !.timers = 1, !.timer = "armed", !.loads = 1,
                           !.cb = "pending", !.race = "pending"]

\* Lines 116-174: setRTLTextPlugin up to its await.  fault "status":
\* getRTLTextPluginStatus throws; fault "load": the engine's
\* setRTLTextPlugin throws, which rejects the load promise at once.
PluginStart(g, fault) ==
  IF g.rtl = "false" THEN g
  ELSE IF g.methods # "both"
       THEN [g EXCEPT !.toOnError = IF g.onError THEN 1 ELSE 0]
       ELSE IF fault = "status"
            THEN Delivered(g)
            ELSE IF g.status # "unavailable"
                 THEN g
                 ELSE IF fault = "load"
                      THEN Delivered([g EXCEPT !.timers = 1, !.timer = "armed",
                                               !.loads = 1, !.race = "rejected"])
                      ELSE [g EXCEPT !.timers = 1, !.timer = "armed", !.loads = 1,
                                     !.cb = "pending", !.race = "pending"]

\* The inputs of one call of setGlobals(mapLib, props, onError) and what it
\* has done so far.
\*   mapLibOk    mapLib is an object
\*   gprops      the global settings in props
\*   onError     onError is given
\*   rtl         props.RTLTextPlugin: "default" (absent) or "false"
\*   methods     the plugin methods of mapLib: "both", or "statusOnly"
\*               (setRTLTextPlugin is missing)
\*   status      what getRTLTextPluginStatus() returns
\*   rtlHandler  props.onRTLPluginError: "absent", "ok" or "throws"
\*   module      the settings of the engine module
\*   errs        the settings reported to onError
\*   moduleErrs  'Invalid mapLib' reports
\*   loads       calls of the engine's setRTLTextPlugin
\*   timers      setTimeout calls
\*   race        Promise.race: "none", "pending", "resolved", "rejected"
\*   cb, timer   the load callback and the timer: "none", "pending" or
\*               "armed", then "called" or "fired"
\*   toHandler   RTL errors delivered to onRTLPluginError
\*   toOnError   RTL errors delivered to onError
GCall(mapLibOk, gprops, onError, rtl, methods, status, rtlHandler) ==
  [mapLibOk |-> mapLibOk, gprops |-> gprops, onError |-> onError, rtl |-> rtl,
   methods |-> methods, status |-> status, rtlHandler |-> rtlHandler,
   module |-> [k \in GlobalKeys |-> EngineDefault], errs |-> <<>>,
   moduleErrs |-> 0, loads |-> 0, timers |-> 0, race |-> "none", cb |-> "none",
   timer |-> "none", toHandler |-> 0, toOnError |-> 0]

\* Lines 72-114: setGlobals.
setGlobals(g, fault) ==
  IF ~g.mapLibOk
  THEN [g EXCEPT !.moduleErrs = IF g.onError THEN 1 ELSE 0]
  ELSE LET loop == SettingsLoop(g.module, g.gprops, g.onError, fault)
       IN PluginStart([g EXCEPT !.module = loop.module, !.errs = loop.errs], fault)

\* A call of setGlobals.
SetGlobalsCall(g, fault) ==
  /\ globalsSt = <<>>
  /\ globalsSt' = <<setGlobals(g, fault)>>
  /\ UNCHANGED <<proxyVars, refVars, mountVars, markerVars, mapTransform, layerSt, eqSt>>

\* Lines 160-170 and 176-193: the engine invokes the load callback, with an
\* error or without.  Promise.race settles with the first of its promises;
\* a rejection is caught by the catch block.
LoadCallback(failed) ==
  /\ globalsSt # <<>>
  /\ globalsSt[1].cb = "pending"
  /\ LET g == [globalsSt[1] EXCEPT !.cb = "called"]
     IN globalsSt' =
          <<IF g.race # "pending" THEN g
            ELSE IF failed THEN Delivered([g EXCEPT !.race = "rejected"])
            ELSE [g EXCEPT !.race = "resolved"]>>
  /\ UNCHANGED <<proxyVars, refVars, mountVars, markerVars, mapTransform, layerSt, eqSt>>

\* Lines 153-157: the timer fires and rejects the timeout promise.
TimerFires ==
  /\ globalsSt # <<>>
  /\ globalsSt[1].timer = "armed"
  /\ LET g == [globalsSt[1] EXCEPT !.timer = "fired"]
     IN globalsSt' =
          <<IF g.race # "pending" THEN g
            ELSE Delivered([g EXCEPT !.race = "rejected"])>>
  /\ UNCHANGED <<proxyVars, refVars, mountVars, markerVars, mapTransform, layerSt, eqSt>>

\* The props of the call, as long as it has not been made.
PropsOfCall == IF globalsSt = <<>> THEN GlobalProps ELSE {}

GlobalsNext ==
  \/ \E gprops \in PropsOfCall, mapLibOk \in BOOLEAN, onError \in BOOLEAN,
        rtl \in {"default", "false"},
        methods \in {"both", "statusOnly"},
        status \in {"unavailable", "loaded"},
        rtlHandler \in {"absent", "ok", "throws"},
        fault \in FaultsOf({"assign", "status", "load"}) :
       SetGlobalsCall(GCall(mapLibOk, gprops, onError, rtl, methods, status,
                            rtlHandler), fault)
  \/ \E failed \in BOOLEAN : LoadCallback(failed)
  \/ TimerFires

\* ----------------------------------------------------------------- deepEqual
\* Values are leaves (null, undefined, booleans, numbers, strings: here
\* undefined and two numbers) and references to objects of a heap.  An
\* object of the heap is a plain object or an array with its own keys;
\* the one element of an array has the key "0".
Leaf(x) == [t |-> "leaf", v |-> x]
Ref(n) == [t |-> "ref", v |-> n]

\* The objects of the first argument and of the second.
NodesA == {"a1", "a2"}
NodesB == {"b1", "b2"}

FieldsOver(keys, values) == UNION {[K -> values] : K \in SUBSET keys}

\* The objects whose members refer to objects of nodes: plain objects
\* with a member k (an object) and a member v (a leaf), each present or
\* not, and arrays of length 0 or 1.
ObjectsOver(nodes) ==
  {[kind |-> "object", fields |-> k @@ v] :
     k \in FieldsOver({"k"}, {Ref(n) : n \in nodes}),
     v \in FieldsOver({"v"}, {Leaf("undefined"), Leaf("1"), Leaf("2")})}
  \cup {[kind |-> "array", fields |-> e] :
          e \in FieldsOver({"0"}, {Leaf("1")} \cup {Ref(n) : n \in nodes})}

\* The default of options.maxDepth (line 56).
DefaultMaxDepth == 100

\* Object.is(a, b): the same primitive or the same object.
ObjectIs(a, b) == a = b

\* o[key]: undefined if o has no such member.
Member(o, key) ==
  IF key \in DOMAIN o.fields THEN o.fields[key] ELSE Leaf("undefined")

\* Variant of hasOwnProperty that finds every key.
hasOwnProperty_Any(o, key) == TRUE

\* Line 154: Object.prototype.hasOwnProperty.call(o, key).
hasOwnProperty(o, key) == key \in DOMAIN o.fields

\* Line 117: the answer when a is an object of the current path.
Revisited(b, visitedB) == b.v \in visitedB

\* Lines 51-172: deepEqualWithTracking(a, b, context) over the heap h.
\* visitedA and visitedB hold the objects of the current path: each call
\* adds its pair and removes it when it returns (lines 124-125, 169-170).
RECURSIVE deepEqualWithTracking(_, _, _, _, _, _, _)
deepEqualWithTracking(h, a, b, visitedA, visitedB, depth, maxDepth) ==
  IF depth > maxDepth THEN FALSE
  ELSE IF ObjectIs(a, b) THEN TRUE
  ELSE IF a.t = "leaf" \/ b.t = "leaf" THEN FALSE
  ELSE IF a.v \in visitedA THEN Revisited(b, visitedB)
  ELSE IF b.v \in visitedB THEN FALSE
  ELSE LET oa == h[a.v]
           ob == h[b.v]
           aKeys == DOMAIN oa.fields
           bKeys == DOMAIN ob.fields
           next(key) ==
             deepEqualWithTracking(h, Member(oa, key), Member(ob, key),
                                   visitedA \cup {a.v}, visitedB \cup {b.v},
                                   depth + 1, maxDepth)
       IN IF oa.kind = "array"
          THEN /\ ob.kind = "array"
               /\ Cardinality(aKeys) = Cardinality(bKeys)
               /\ \A key \in aKeys : next(key)
          ELSE IF ob.kind = "array" THEN FALSE
          ELSE /\ Cardinality(aKeys) = Cardinality(bKeys)
               /\ \A key \in aKeys : hasOwnProperty(ob, key) /\ next(key)

\* Lines 37-49: deepEqual(a, b, {maxDepth}).
deepEqual(h, a, b, maxDepth) ==
  deepEqualWithTracking(h, a, b, {}, {}, 0, maxDepth)

\* One call of deepEqual: the heap, the arguments, options.maxDepth, and
\* once it was called what deepEqual(a, b) and deepEqual(b, a) returned.
EqCall(h, a, b, maxDepth) ==
  [heap |-> h, a |-> a, b |-> b, maxDepth |-> maxDepth, done |-> FALSE,
   result |-> FALSE, reverse |-> FALSE]

EqInputs(depths) ==
  {EqCall(ha @@ hb, Ref("a1"), Ref("b1"), maxDepth) :
     ha \in [NodesA -> ObjectsOver(NodesA)],
     hb \in [NodesB -> ObjectsOver(NodesB)],
     maxDepth \in depths}

DeepEqualCall ==
  /\ ~eqSt.done
  /\ eqSt' = [eqSt EXCEPT
                !.done = TRUE,
                !.result = deepEqual(eqSt.heap, eqSt.a, eqSt.b, eqSt.maxDepth),
                !.reverse = deepEqual(eqSt.heap, eqSt.b, eqSt.a, eqSt.maxDepth)]
  /\ UNCHANGED <<proxyVars, refVars, mountVars, markerVars, mapTransform, globalsSt, layerSt>>

EqNext == DeepEqualCall

\* ------------------------------------------------------ the Layer component
\* The objects the style values of a layer refer to: two equal arrays,
\* [1] and [1], and an empty one.
LayerHeap ==
  [x1 |-> [kind |-> "array", fields |-> ("0" :> Leaf("1"))],
   x2 |-> [kind |-> "array", fields |-> ("0" :> Leaf("1"))],
   y |-> [kind |-> "array", fields |-> <<>>]]

\* The keys of a layout or paint object, in the order of for ... in.
StyleKeys == <<"p", "q">>

\* A layout or paint prop: <<>> (undefined) or <<the object>>, the object
\* being known by its identity oid and its members.
StyleObject(oid, fields) == <<[oid |-> oid, fields |-> fields]>>
StyleFields(o) == IF o = <<>> THEN <<>> ELSE o[1].fields
FieldGet(f, key) == IF key \in DOMAIN f THEN f[key] ELSE Leaf("undefined")

LayoutContents ==
  {p @@ q : p \in FieldsOver({"p"}, {Leaf("1"), Ref("x1"), Ref("x2")}),
            q \in FieldsOver({"q"}, {Leaf("1")})}
PaintContents == FieldsOver({"p"}, {Leaf("1"), Ref("x1")})

\* The props of a Layer.  source: the props name a source or not.
NoLayerProps ==
  [id |-> "A", type |-> "fill", source |-> FALSE, beforeId |-> Leaf("undefined"),
   layout |-> <<>>, paint |-> <<>>, filter |-> Leaf("undefined"),
   minzoom |-> Leaf("undefined"), maxzoom |-> Leaf("undefined")]

\* A layout or paint object made for a render is another object than the
\* last one.
NewOid(o) == IF o = <<>> THEN 0 ELSE 1 - o[1].oid

\* The props of a re-render: one of the style fields is changed or none
\* (a layout or paint object made anew may have the same members), and
\* the id or the type is another one or not.
NextLayerProps(p) ==
  LET styles ==
        {p}
        \cup {[p EXCEPT !.beforeId = v] : v \in {Leaf("undefined"), Leaf("top")}}
        \cup {[p EXCEPT !.layout = o] :
                o \in {<<>>} \cup {StyleObject(NewOid(p.layout), f) : f \in LayoutContents}}
        \cup {[p EXCEPT !.paint = o] :
                o \in {<<>>} \cup {StyleObject(NewOid(p.paint), f) : f \in PaintContents}}
        \cup {[p EXCEPT !.filter = v] : v \in {Leaf("undefined"), Ref("x1"), Ref("x2")}}
        \cup {[p EXCEPT !.minzoom = v] : v \in {Leaf("undefined"), Leaf("1")}}
        \cup {[p EXCEPT !.maxzoom = v] : v \in {Leaf("undefined"), Leaf("2")}}
  IN styles
     \cup {[q EXCEPT !.type = "line"] : q \in styles}
     \cup {[p EXCEPT !.type = "custom"], [p EXCEPT !.id = "B"]}

\* An engine call of the update pass.
LayerCall(op, key, value, value2) ==
  [op |-> op, key |-> key, value |-> value, value2 |-> value2]

\* Variant of ValueChanged that compares by reference.
ValueChanged_ByReference(a, b) == a # b

\* Lines 37, 50, 62: !deepEqual(a, b).
ValueChanged(a, b) == ~deepEqual(LayerHeap, a, b, DefaultMaxDepth)

\* Lines 34-46 and 47-59: the calls for the layout (op setLayoutProperty)
\* and for the paint (op setPaintProperty).
StyleCalls(op, new, prev) ==
  IF new # <<>> /\ prev # <<>> /\ new[1].oid = prev[1].oid
  THEN <<>>
  ELSE LET nf == StyleFields(new)
           pf == StyleFields(prev)
           changed == SelectSeq(StyleKeys, LAMBDA k :
                        k \in DOMAIN nf /\ ValueChanged(nf[k], FieldGet(pf, k)))
           removed == SelectSeq(StyleKeys, LAMBDA k :
                        k \in DOMAIN pf /\ k \notin DOMAIN nf)
       IN [i \in 1..Len(changed) |->
             LayerCall(op, changed[i], nf[changed[i]], Leaf("undefined"))]
          \o [i \in 1..Len(removed) |->
                LayerCall(op, removed[i], Leaf("undefined"), Leaf("undefined"))]

\* Lines 20-68: updateLayer(map, id, props, prevProps): whether an assert
\* failed, and the engine calls in their order.  assert (utils/assert)
\* throws if its condition is false.
updateLayer(p, prev) ==
  IF p.id # prev.id \/ p.type # prev.type
  THEN [asserted |-> TRUE, calls |-> <<>>]
  ELSE IF p.type = "custom" \/ prev.type = "custom"
  THEN [asserted |-> FALSE, calls |-> <<>>]
  ELSE [asserted |-> FALSE,
        calls |->
          (IF p.beforeId # prev.beforeId
           THEN <<LayerCall("moveLayer", "", p.beforeId, Leaf("undefined"))>>
           ELSE <<>>)
          \o StyleCalls("setLayoutProperty", p.layout, prev.layout)
          \o StyleCalls("setPaintProperty", p.paint, prev.paint)
          \o (IF ValueChanged(p.filter, prev.filter)
              THEN <<LayerCall("setFilter", "", p.filter, Leaf("undefined"))>>
              ELSE <<>>)
          \o (IF p.minzoom # prev.minzoom \/ p.maxzoom # prev.maxzoom
              THEN <<LayerCall("setLayerZoomRange", "", p.minzoom, p.maxzoom)>>
              ELSE <<>>)]

\* The layer of the engine after addLayer(options, beforeId).
AddedLayer(p) ==
  [type |-> p.type, before |-> p.beforeId, layout |-> StyleFields(p.layout),
   paint |-> StyleFields(p.paint), filter |-> p.filter, minzoom |-> p.minzoom,
   maxzoom |-> p.maxzoom]

SetField(f, key, value) ==
  IF value = Leaf("undefined")
  THEN [k \in DOMAIN f \ {key} |-> f[k]]
  ELSE [k \in DOMAIN f \cup {key} |-> IF k = key THEN value ELSE f[k]]

\* The layer of the engine after one call.
AfterCall(l, c) ==
  CASE c.op = "moveLayer" -> [l EXCEPT !.before = c.value]
    [] c.op = "setLayoutProperty" -> [l EXCEPT !.layout = SetField(@, c.key, c.value)]
    [] c.op = "setPaintProperty" -> [l EXCEPT !.paint = SetField(@, c.key, c.value)]
    [] c.op = "setFilter" -> [l EXCEPT !.filter = c.value]
    [] OTHER -> [l EXCEPT !.minzoom = c.value, !.maxzoom = c.value2]

\* The layer of the engine after the first n of the calls.
RECURSIVE AfterCalls(_, _, _)
AfterCalls(l, calls, n) ==
  IF n = 0 THEN l ELSE AfterCall(AfterCalls(l, calls, n - 1), calls[n])

\* Lines 70-79: createLayer adds the layer if the style is loaded and the
\* source exists or the props name none.
\* Variant of CanAdd without the test of the source.
CanAdd_AnySource(st, p) == st.style = "loaded"

CanAdd(st, p) == st.style = "loaded" /\ (~p.source \/ st.sourceExists)

\* What a step of the Layer did.
\*   calls     the engine calls that were made and returned
\*   threw     an engine call threw
\*   asserted  an assert of updateLayer failed
\*   added     addLayer was called
\*   present   the render found the layer in the map (line 110)
\*   prev      the props of the render before
LEv(kind) ==
  [kind |-> kind, calls |-> <<>>, threw |-> FALSE, asserted |-> FALSE,
   added |-> FALSE, present |-> FALSE, prev |-> NoLayerProps]

\* A Layer component and its map.
\*   mounted, listening   the component is mounted; its 'styledata'
\*                        listener is registered (lines 92-107)
\*   pending      a forced update waits for its render
\*   propsRef     propsRef.current
\*   style        map.style: "none", "loading" or "loaded"
\*   sourceExists map.getSource(props.source)
\*   layer        <<>> or <<the layer of the engine with the id>>
\*   n            renders with new props so far
\*   ev           the last step
LayerState(style, sourceExists) ==
  [mounted |-> FALSE, listening |-> FALSE, pending |-> FALSE,
   propsRef |-> NoLayerProps, style |-> style, sourceExists |-> sourceExists,
   layer |-> <<>>, n |-> 0, ev |-> LEv("init")]

\* Lines 109-122: the body of a render with props p, of which the first
\* throwAt - 1 engine calls return and the next one throws (0: none does).
RenderBody(st, p, throwAt, kind) ==
  IF st.style # "none" /\ st.layer # <<>>
  THEN LET u == updateLayer(p, st.propsRef)
           threw == throwAt \in 1..Len(u.calls)
           done == IF threw THEN throwAt - 1 ELSE Len(u.calls)
       IN [st EXCEPT !.layer = <<AfterCalls(st.layer[1], u.calls, done)>>,
                     !.propsRef = p,
                     !.ev = [LEv(kind) EXCEPT !.calls = SubSeq(u.calls, 1, done),
                                              !.threw = threw,
                                              !.asserted = u.asserted,
                                              !.present = TRUE,
                                              !.prev = st.propsRef]]
  ELSE [st EXCEPT !.layer = IF CanAdd(st, p) THEN <<AddedLayer(p)>> ELSE <<>>,
                  !.propsRef = p,
                  !.ev = [LEv(kind) EXCEPT !.added = CanAdd(st, p),
                                           !.prev = st.propsRef]]

\* The props of the first render.
MountLayerProps ==
  {NoLayerProps, [NoLayerProps EXCEPT !.source = TRUE],
   [NoLayerProps EXCEPT !.layout = StyleObject(0, [p |-> Ref("x1"), q |-> Leaf("1")]),
                        !.paint = StyleObject(0, [p |-> Leaf("1")]),
                        !.filter = Ref("x1")]}

\* The first render (propsRef is the props) and the effect of lines
\* 92-107: the listener is registered and an update is forced.
LayerMount(p) ==
  /\ ~layerSt.mounted /\ layerSt.ev.kind = "init"
  /\ layerSt' = [RenderBody([layerSt EXCEPT !.propsRef = p], p, 0, "mount")
                   EXCEPT !.mounted = TRUE, !.listening = TRUE, !.pending = TRUE]
  /\ UNCHANGED <<proxyVars, refVars, mountVars, markerVars, mapTransform, globalsSt, eqSt>>

\* A render with new props from the parent.
LayerRender(p, throwAt) ==
  /\ layerSt.mounted
  /\ layerSt.n < MaxLayerRenders
  /\ layerSt' = [RenderBody(layerSt, p, throwAt, "render")
                   EXCEPT !.pending = FALSE, !.n = @ + 1]
  /\ UNCHANGED <<proxyVars, refVars, mountVars, markerVars, mapTransform, globalsSt, eqSt>>

\* The render that forceUpdate (line 94) has asked for, with the props of
\* the last render.
LayerForcedRender(throwAt) ==
  /\ layerSt.mounted
  /\ layerSt.pending
  /\ layerSt' = [RenderBody(layerSt, layerSt.propsRef, throwAt, "forced")
                   EXCEPT !.pending = FALSE]
  /\ UNCHANGED <<proxyVars, refVars, mountVars, markerVars, mapTransform, globalsSt, eqSt>>

\* The map fires 'styledata': its style has begun or ended loading (a new
\* style has none of the layers and sources that were added) or a source
\* was added; the listener forces an update.
StyleData(style, sourceExists) ==
  /\ style # "none"
  /\ <<style, sourceExists>> # <<layerSt.style, layerSt.sourceExists>>
  /\ style = "loading" => ~sourceExists
  /\ layerSt' = [layerSt EXCEPT
                   !.style = style,
                   !.sourceExists = sourceExists,
                   !.layer = IF style = "loading" THEN <<>> ELSE @,
                   !.pending = @ \/ layerSt.listening,
                   !.ev = LEv("styledata")]
  /\ UNCHANGED <<proxyVars, refVars, mountVars, markerVars, mapTransform, globalsSt, eqSt>>

\* The cleanup of the effect (lines 98-104).
LayerUnmount ==
  /\ layerSt.mounted
  /\ layerSt' = [layerSt EXCEPT
                   !.mounted = FALSE, !.listening = FALSE, !.pending = FALSE,
                   !.layer = IF layerSt.style = "loaded" THEN <<>> ELSE @,
                   !.ev = LEv("unmount")]
  /\ UNCHANGED <<proxyVars, refVars, mountVars, markerVars, mapTransform, globalsSt, eqSt>>

\* The engine calls that may throw.
ThrowsAt == IF faults THEN 0..2 ELSE {0}

LayerNext ==
  \/ \E p \in MountLayerProps : LayerMount(p)
  \/ \E p \in NextLayerProps(layerSt.propsRef), throwAt \in ThrowsAt :
       LayerRender(p, throwAt)
  \/ \E throwAt \in ThrowsAt : LayerForcedRender(throwAt)
  \/ \E style \in {"loading", "loaded"}, sourceExists \in BOOLEAN :
       StyleData(style, sourceExists)
  \/ LayerUnmount

\* ---------------------------------------------------------- specifications
RefInit ==
  /\ mapMethods = {}
  /\ ref = <<>>

\* No Map component is mounted.
MountIdle ==
  /\ mounted = FALSE
  /\ props = NoProps
  /\ mapInstance = 0
  /\ isLoading = TRUE
  /\ error = FALSE
  /\ renderedError = FALSE
  /\ dirty = FALSE
  /\ runs = <<>>
  /\ controllers = <<>>
  /\ pool = [id \in Ids |-> 0]
  /\ plugin = [status |-> "unavailable", orphaned |-> FALSE]
  /\ lastEv = Ev("init")

\* No Marker component is rendered.
MarkerIdle ==
  /\ marker = <<>>
  /\ thisRef = NoMarkerProps
  /\ rendered = NoMarkerProps
  /\ markerEv = MEv("init", {}, "", 0)
  /\ nRenders = 0

\* The native map has the proxy as its transform.
SwitchIdle == mapTransform = "proxy"

GlobalsIdle == globalsSt = <<>>

\* No Layer is rendered; the map has no style yet.
LayerIdle == layerSt = LayerState("none", FALSE)

\* No call of deepEqual is under way.
EqIdle == eqSt = [EqCall(<<>>, Leaf("1"), Leaf("1"), DefaultMaxDepth) EXCEPT !.done = TRUE]

PartIdle == SwitchIdle /\ GlobalsIdle /\ LayerIdle /\ EqIdle

\* The proxy under writes and calls.
Init == ProxyInit /\ faults = FALSE /\ RefInit /\ MountIdle /\ MarkerIdle /\ PartIdle
Next == ProxyNext
Spec == Init /\ [][Next]_vars

\* The proxy under writes, calls and reads.
NextRead == ProxyNext \/ ReadNext
SpecRead == Init /\ [][NextRead]_vars

\* The same proxy over a transform whose setters, methods and clone() may
\* throw.
InitFault == ProxyInit /\ faults = TRUE /\ RefInit /\ MountIdle /\ MarkerIdle /\ PartIdle
SpecFault == InitFault /\ [][Next]_vars

\* The MapRef built over a native map.
NextRef == RefNext
SpecRef == Init /\ [][NextRef]_vars

\* The ref of a native map in use, next to the proxy.
InitHandle ==
  /\ ProxyInit
  /\ faults = FALSE
  /\ mapMethods = SwitchedMethods
  /\ ref = <<createRef("ok", mapMethods, TRUE)>>
  /\ MountIdle /\ MarkerIdle /\ PartIdle
NextHandle == ProxyNext \/ HandleNext
SpecHandle == InitHandle /\ [][NextHandle]_vars

\* The ref in use on a native map whose transform member is assigned from
\* outside, over a native map whose calls may throw.
InitSwitch ==
  /\ ProxyInit
  /\ faults = TRUE
  /\ mapMethods = SwitchedMethods
  /\ ref = <<createRef("ok", mapMethods, TRUE)>>
  /\ MountIdle /\ MarkerIdle /\ PartIdle
NextSwitch == HandleNext \/ SwitchNext
SpecSwitch == InitSwitch /\ [][NextSwitch]_vars

\* The proxy with the camera events of the engine passed on.
NextEvent == ProxyNext \/ EventNext
SpecEvent == Init /\ [][NextEvent]_vars

\* The proxy with the recompute routines called through it.
NextRecompute == ProxyNext \/ RecomputeNext
SpecRecompute == Init /\ [][NextRecompute]_vars

\* A proxy nobody has declared a view state to or written to.
ProxyIdle ==
  /\ internalUpdate = FALSE
  /\ reactViewState = EmptyViewState
  /\ controlledTransform = DefaultTransform
  /\ proposedTransform = <<>>
  /\ lastOp = NoOp
  /\ overridden = FALSE
  /\ constrained = FALSE
  /\ nOps = 0

\* The Map component, with a valid map library and container.
InitMount == ProxyIdle /\ faults = FALSE /\ RefInit /\ MountIdle /\ MarkerIdle /\ PartIdle
NextMount == MountNext
SpecMount == InitMount /\ [][NextMount]_vars

\* The same where the load, the container, the library, the constructor and
\* the registry of mounted maps may fail.
InitMountFault == ProxyIdle /\ faults = TRUE /\ RefInit /\ MountIdle /\ MarkerIdle /\ PartIdle
SpecMountFault == InitMountFault /\ [][NextMount]_vars

\* The module load of every run settles: Promise.resolve(mapLib) settles in
\* a microtask and the dynamic import resolves or rejects, and the event
\* loop runs the callbacks of a settled promise.  Nothing is assumed of the
\* plugin load, whose callback may never be invoked.
LoadsSettle ==
  \A r \in 1..MaxRuns :
    WF_vars(\E outcome \in OutcomesOf, start \in BOOLEAN : Settle(r, outcome, start))
SpecMountLive == InitMount /\ [][NextMount]_vars /\ LoadsSettle

\* One call of setGlobals and the plugin load it starts, over an engine
\* module whose members may throw and whose settings may be read-only.
InitGlobals == ProxyIdle /\ faults = TRUE /\ RefInit /\ MountIdle /\ MarkerIdle /\ PartIdle
NextGlobals == GlobalsNext
SpecGlobals == InitGlobals /\ [][NextGlobals]_vars

\* deepEqual on two arguments.
InitEq ==
  /\ ProxyIdle /\ faults = FALSE /\ RefInit /\ MountIdle /\ MarkerIdle
  /\ SwitchIdle /\ GlobalsIdle /\ LayerIdle
  /\ eqSt \in EqInputs({1, DefaultMaxDepth})
NextEq == EqNext
SpecEq == InitEq /\ [][NextEq]_vars

\* A Layer component on a map whose style may be absent, loading or
\* loaded when the Layer mounts.
InitLayerWith(f) ==
  /\ ProxyIdle /\ faults = f /\ RefInit /\ MountIdle /\ MarkerIdle
  /\ SwitchIdle /\ GlobalsIdle /\ EqIdle
  /\ \E style \in {"none", "loading", "loaded"}, sourceExists \in BOOLEAN :
       /\ style # "loaded" => ~sourceExists
       /\ layerSt = LayerState(style, sourceExists)
InitLayer == InitLayerWith(FALSE)
NextLayer == LayerNext
SpecLayer == InitLayer /\ [][NextLayer]_vars

\* The same where React runs the render that a forced update has asked
\* for.
SpecLayerLive ==
  SpecLayer /\ WF_vars(\E throwAt \in ThrowsAt : LayerForcedRender(throwAt))

\* The same on a map whose calls may throw.
InitLayerFault == InitLayerWith(TRUE)
SpecLayerFault == InitLayerFault /\ [][NextLayer]_vars

\* A Marker component under re-renders and events of its marker.
InitMarker == ProxyIdle /\ faults = FALSE /\ RefInit /\ MountIdle /\ MarkerIdle /\ PartIdle
NextMarker == MarkerNext
SpecMarker == InitMarker /\ [][NextMarker]_vars

\* ------------------------------------------------------------------ claims
\* The part of the last written value that belongs to a declared field.
Attempted(f) ==
  CASE f = "longitude" -> lastOp.value[1]
    [] f = "latitude" -> lastOp.value[2]
    [] OTHER -> lastOp.value

\* The groups of properties that are camera fields.
CameraGroups ==
  {"center", "zoom", "seaLevelZoom", "pitch", "bearing", "altitude", "padding"}

\* What a read of a group's property shows of a transform.
GroupGet(tr, group) ==
  IF group = "center" THEN <<tr["lng"], tr["lat"]>> ELSE tr[group]

\* C1: when a camera update ends on a write to a camera field, every
\* declared field of that camera field has its declared value in the
\* committed transform.
C1_DeclaredValueSupremacy ==
  lastOp.kind = "end" =>
    \A f \in FieldsOf(lastOp.prop) :
      IsDeclared(reactViewState, f) =>
        controlledTransform[MemberOf(f)] = reactViewState[f]

\* C2: right after a write to a camera field inside a camera update, every
\* field of it that has no declared value holds the written value in the
\* committed transform.
C2_UndeclaredPassThrough ==
  (lastOp.kind = "set" /\ internalUpdate) =>
    \A f \in FieldsOf(lastOp.prop) :
      ~IsDeclared(reactViewState, f) =>
        controlledTransform[MemberOf(f)] = Attempted(f)

C4_OverrideRecorded ==
  ( /\ lastOp.kind = "set"
    /\ internalUpdate
    /\ FieldsOf(lastOp.prop) # {}
    /\ \A f \in FieldsOf(lastOp.prop) : IsDeclared(reactViewState, f)
    /\ \E f \in FieldsOf(lastOp.prop) : Attempted(f) # reactViewState[f] )
  => /\ \A f \in FieldsOf(lastOp.prop) :
          controlledTransform[MemberOf(f)] = reactViewState[f]
     /\ proposedTransform # <<>>
     /\ \A f \in FieldsOf(lastOp.prop) :
          proposedTransform[1][MemberOf(f)] = Attempted(f)

\* C5 as stated: right after a write to a camera field outside a camera
\* update, the committed transform holds the written value and there is no
\* proposed transform.
C5_AcceptedOutsideUpdate ==
  (lastOp.kind = "set" /\ ~internalUpdate /\ lastOp.prop \in CameraGroups) =>
    /\ proposedTransform = <<>>
    /\ GroupGet(controlledTransform, lastOp.prop) = lastOp.value

\* C5: right after a write to a camera field outside a camera update there
\* is no proposed transform, and a written zoom, pitch, bearing or elevation
\* is in the committed transform exactly if the field has no declared value:
\* with a declared value the committed transform keeps the declared value.
C5_OutsideUpdateCommittedOnly ==
  (lastOp.kind = "set" /\ ~internalUpdate /\ lastOp.prop \in CameraGroups) =>
    /\ proposedTransform = <<>>
    /\ \A f \in FieldsOf(lastOp.prop) \ {"longitude", "latitude", "padding"} :
         controlledTransform[MemberOf(f)] =
           IF IsDeclared(reactViewState, f) THEN reactViewState[f] ELSE lastOp.value

\* C5 witness: outside a camera update, zoom is declared and a different
\* zoom has just been written.
C5_DeclaredZoomWrittenOutsideUpdate ==
  /\ lastOp.kind = "set"
  /\ ~internalUpdate
  /\ lastOp.prop = "zoom"
  /\ IsDeclared(reactViewState, "zoom")
  /\ lastOp.value # reactViewState["zoom"]

\* C6: a read of a camera field by the engine inside a camera update shows
\* the proposed transform if there is one, and every other read shows the
\* committed transform.
C6_ReadVisibility ==
  (lastOp.kind = "get" /\ lastOp.prop \in CameraGroups) =>
    lastOp.result =
      IF lastOp.value = "engine" /\ internalUpdate /\ proposedTransform # <<>>
      THEN GroupGet(proposedTransform[1], lastOp.prop)
      ELSE GroupGet(controlledTransform, lastOp.prop)

\* C6 witness: the engine has read, inside a camera update, a camera field
\* whose proposed value differs from the committed one.
C6_EngineReadsProposed ==
  /\ lastOp.kind = "get"
  /\ lastOp.value = "engine"
  /\ lastOp.prop \in CameraGroups
  /\ internalUpdate
  /\ proposedTransform # <<>>
  /\ lastOp.result # GroupGet(controlledTransform, lastOp.prop)

\* C7: right after a write to center, each coordinate of the committed
\* center is the declared one if it is declared and the written one if not.
C7_CenterRewrite ==
  (lastOp.kind = "set" /\ lastOp.prop = "center") =>
    \A f \in {"longitude", "latitude"} :
      controlledTransform[MemberOf(f)] =
        IF IsDeclared(reactViewState, f) THEN reactViewState[f] ELSE Attempted(f)

\* C8: an access to a property that is no camera field, camera method or
\* synthetic property is rejected: an error is reported, a write reaches
\* neither transform and a read yields undefined.
C8_UnknownPropertyRejected ==
  (lastOp.prop = "foo" /\ lastOp.kind \in {"set", "get"}) =>
    /\ lastOp.errs # <<>>
    /\ controlledTransform["foo"] = Undefined
    /\ proposedTransform # <<>> => proposedTransform[1]["foo"] = Undefined
    /\ lastOp.kind = "get" => lastOp.result = Undefined

\* C9: inside a camera update, an operation on a camera field during which a
\* failure was reported does not raise to its caller.
C9_FailureNotRaised ==
  (internalUpdate /\ lastOp.prop \in CameraGroups /\ lastOp.errs # <<>>) =>
    ~lastOp.raised

\* C10: a ref that createRef returned has none of the skipped methods among
\* its keys, and its getMap() returns the native map with all its members.
C10_RefHidesSkippedMethods ==
  (ref # <<>> /\ ~ref[1].null) =>
    /\ ref[1].keys \cap skipMethods = {}
    /\ "getMap" \in ref[1].keys
    /\ getMap(ref[1]) = mapMethods

\* C10 witness: a ref built over a native map that has a skipped method and
\* a forwarded one.
C10_RefOverMapWithSkippedMethod ==
  /\ ref # <<>>
  /\ ~ref[1].null
  /\ "setStyle" \in getMap(ref[1])
  /\ "flyTo" \in ref[1].keys

\* C11: what a getter of the ref returns is read from the committed
\* transform, and what project, unproject, queryTerrainElevation and
\* queryRenderedFeatures return is computed from the committed camera, also
\* inside a camera update that has a proposed transform.
C11_RefReadsCommitted ==
  lastOp.kind = "ref" =>
    lastOp.result =
      IF lastOp.prop \in RefGetters
      THEN PropGet(controlledTransform, GetterProp(lastOp.prop))
      ELSE CameraOf(controlledTransform)

\* C11 witness: project was called inside a camera update whose proposed
\* camera differs from the committed one.
C11_ProjectDuringUpdate ==
  /\ lastOp.kind = "ref"
  /\ lastOp.prop = "project"
  /\ internalUpdate
  /\ proposedTransform # <<>>
  /\ CameraOf(proposedTransform[1]) # CameraOf(controlledTransform)

\* C12: when the load of a run that asks for reuse settles and the pool
\* holds a controller under the run's id, that controller becomes the
\* component's controller, attached, with the declared view of the run's
\* props, and no controller is constructed; in every other case in which
\* the run gets a controller, a new one is constructed.
C12_PoolReattachment ==
  (lastEv.kind = "settle" /\ lastEv.alive /\ lastEv.ctrl # 0) =>
    IF lastEv.reuse /\ lastEv.pooled # 0
    THEN /\ lastEv.ctrl = lastEv.pooled
         /\ mapInstance = lastEv.pooled
         /\ ~lastEv.fresh
         /\ controllers[lastEv.ctrl].status = "attached"
         /\ controllers[lastEv.ctrl].declared = runs[lastEv.run].view
         /\ pool[runs[lastEv.run].id] = 0
    ELSE lastEv.fresh /\ lastEv.ctrl = Len(controllers)

\* C12 witness: a mount has reused the controller that an earlier unmount
\* recycled, with another declared view than it had.
C12_ReusedAfterUnmount ==
  /\ lastEv.kind = "settle"
  /\ lastEv.reuse
  /\ lastEv.pooled # 0
  /\ mapInstance = lastEv.pooled
  /\ Len(controllers) = 1
  /\ controllers[1].declared = 1

\* C13: every unmount of a component whose run holds a constructed
\* controller has called recycle() on it if reuseMaps is set, leaving it
\* pooled, and destroy() otherwise, leaving it destroyed, also when the
\* notification to the registry of mounted maps fails.
C13_TeardownOnUnmount ==
  (lastEv.kind = "unmount" /\ lastEv.ctrl # 0) =>
    /\ lastEv.cleanup = (IF lastEv.reuse THEN "recycle" ELSE "destroy")
    /\ controllers[lastEv.ctrl].status
         = (IF lastEv.reuse THEN "pooled" ELSE "destroyed")

\* C14: the layout effect of a render never calls setProps on a controller
\* that the component has destroyed or returned to the pool.
C14_NoSetPropsAfterTeardown ==
  lastEv.kind \in {"render", "change"} =>
    lastEv.setPropsOn \in {"none", "attached"}

\* The load of a run whose cleanup has already run settles in this step.
StaleSettle ==
  \E r \in 1..Len(runs) :
    /\ ~runs[r].isMounted
    /\ runs[r].load = "pending"
    /\ runs'[r].load = "settled"

\* C15: when a module load resolves or rejects after the cleanup of its
\* run (unmount, or a change of reuseMaps/id), no controller is constructed
\* or taken from the pool, setGlobals is not called, the component's state
\* is left as it is and handleError is not called.
C15_StaleLoadIsNoOp ==
  [][StaleSettle =>
       /\ UNCHANGED <<mapInstance, isLoading, error, dirty, controllers, pool,
                      plugin, mounted, props>>
       /\ ~lastEv'.globals
       /\ ~lastEv'.notified
       /\ lastEv'.ctrl = 0]_vars

\* C15 witness: a load has settled after the unmount of its component,
\* while a controller of an earlier run sits in the pool.
C15_SettledAfterUnmount ==
  /\ lastEv.kind = "settle"
  /\ ~lastEv.alive
  /\ ~mounted
  /\ \E id \in Ids : pool[id] # 0

\* C16: a plugin load that ends (loaded, failed or timed out) after the
\* component that started it has unmounted does not call onRTLPluginError.
C16_PluginLoadAfterUnmountIsSilent ==
  (lastEv.kind = "plugin" /\ ~lastEv.alive) => ~lastEv.rtlHandler

\* The ready state: the component has a constructed, attached controller
\* and loading is cleared.
Ready ==
  /\ mounted
  /\ mapInstance # 0
  /\ ~isLoading
  /\ controllers[mapInstance].status = "attached"

\* C17: with a valid map library and container, a mounted component comes
\* to the ready state (or is unmounted first), whatever the plugin load
\* does: succeed, report an error, time out, never call back, or not start.
C17_ReadyWhateverThePlugin == mounted ~> (Ready \/ ~mounted)

\* C17 witness: the component is ready while the plugin load it started is
\* still under way.
C17_ReadyWhilePluginLoads ==
  /\ Ready
  /\ plugin.status = "loading"
  /\ ~plugin.orphaned
  /\ lastEv.kind = "settle"

\* C18: while the component is mounted and the construction of its current
\* run has failed (no container, no module, no Map constructor, or the
\* constructor threw), error is set and loading is cleared; in particular
\* the component is not in the loading state with no load pending.
C18_ErrorStateHeld ==
  (mounted /\ runs[Len(runs)].failed = "construction") => (error /\ ~isLoading)

\* The controllers attached to the component's container.
AttachedControllers ==
  {c \in DOMAIN controllers : controllers[c].status = "attached"}

\* C19: at most one controller is attached to the component's container at
\* any time, whatever the order of renders, changes of reuseMaps/id,
\* unmounts and settlings of the module loads of earlier and current runs.
C19_AtMostOneAttached == Cardinality(AttachedControllers) <= 1


\* C20: every camera event passed on to the application carries the view
\* state of the proposed transform if there is one and of the committed
\* one otherwise, and at that moment every declared field of the committed
\* camera still has its declared value: the event reports what the camera
\* tried to become, the camera itself has not moved.
C20_EventCarriesAttemptedView ==
  lastOp.kind = "event" =>
    /\ lastOp.result =
         (IF proposedTransform # <<>>
          THEN transformToViewState(proposedTransform[1])
          ELSE transformToViewState(controlledTransform))
    /\ \A f \in ViewFields :
         IsDeclared(reactViewState, f) =>
           controlledTransform[MemberOf(f)] = reactViewState[f]

\* A step in which a render's layout effect calls setProps on the attached
\* controller of the component.
SetPropsStep ==
  /\ lastEv'.kind \in {"render", "change", "handler"}
  /\ mapInstance # 0
  /\ controllers[mapInstance].status = "attached"

\* C21: a setProps issues an engine call for a field only if the field's
\* value differs from the props the controller holds; a setProps with the
\* fields of the setProps before it issues none.
C21_DiffMinimality ==
  [][SetPropsStep =>
       /\ \A f \in lastEv'.calls :
            HeldProps(controllers[mapInstance])[f] # props'[f]
       /\ (props'.view = controllers[mapInstance].declared => lastEv'.calls = {})]_vars

\* C21 witness: a render has called setProps with the view state the
\* controller was given by the setProps of the render before, and no
\* engine call was issued.
C21_SecondSetPropsIsSilent ==
  /\ lastEv.kind = "render"
  /\ lastEv.setPropsOn = "attached"
  /\ lastEv.calls = {}
  /\ ~isLoading
  /\ ~dirty
  /\ controllers[mapInstance].declared # runs[Len(runs)].view

\* C22: a render that changes reuseMaps, a construction option the
\* documentation lists as not reactive, while the component has a
\* constructed controller leaves that controller as it is: it is neither
\* destroyed nor recycled.
C22_NonReactiveOptionKeepsInstance ==
  (lastEv.kind = "change" /\ lastEv.reuse # props.reuseMaps /\ lastEv.ctrl # 0) =>
    /\ lastEv.cleanup = "none"
    /\ controllers[lastEv.ctrl].status = "attached"

\* Whether the marker's current value differs from the value of the prop a
\* setter would be called with; points differ if a coordinate differs, an
\* absent offset being the point (0, 0).
CurrentDiffers(m, p, setter) ==
  CASE setter = "setLngLat" -> <<m.lng, m.lat>> # <<p.longitude, p.latitude>>
    [] setter = "setOffset" ->
         <<m.offset.x, m.offset.y>> # <<PointX(p.offset), PointY(p.offset)>>
    [] setter = "setDraggable" -> m.draggable # p.draggable
    [] setter = "setRotation" -> m.rotation # p.rotation
    [] setter = "setRotationAlignment" -> m.rotationAlignment # p.rotationAlignment
    [] setter = "setPitchAlignment" -> m.pitchAlignment # p.pitchAlignment
    [] OTHER -> m.popup # p.popup

\* C23: a re-render of a Marker calls a setter only if the marker's
\* current value differs from the rendered prop, offsets being compared by
\* their coordinates; if no value differs, the marker is left as it is,
\* its offset object included.
C23_SettersOnlyOnChange ==
  [][(marker # <<>> /\ markerEv'.kind = "render") =>
       /\ \A setter \in markerEv'.called :
            CurrentDiffers(marker[1], rendered', setter)
       /\ (\A setter \in MarkerSetters :
             ~CurrentDiffers(marker[1], rendered', setter)) => marker' = marker]_vars

\* C23 witness: a marker created without an offset prop is re-rendered
\* with the offset [0, 0]: no setter is called and the marker keeps its
\* offset object.
C23_EqualOffsetKept ==
  /\ markerEv.kind = "render"
  /\ markerEv.called = {}
  /\ rendered.offset = Point("array", 0, 0)
  /\ marker[1].offsetId = 0
  /\ marker[1].offset = Point("object", 0, 0)
  /\ nRenders = 1

\* C24: an event fired on the marker invokes the handlers of the most
\* recently rendered props, and none of an older render, after any
\* sequence of re-renders.
C24_FireInvokesLatestHandlers ==
  markerEv.kind = "fire" => markerEv.invoked = rendered.handlers

\* A drag end fired after two re-renders invoked the handlers of the last.
C24_FiredAfterRerenders ==
  /\ markerEv.kind = "fire" /\ markerEv.event = "dragend"
  /\ nRenders = 2
  /\ markerEv.invoked = 2 /\ rendered.handlers = 2

\* set-globals.ts lines 84-107: setGlobals writes to the engine module every
\* valid global setting its props hold.  The application passes one (say
\* workerCount) to each Map, so every call of setGlobals writes.
GlobalsWritten == lastEv.kind = "settle" /\ lastEv.globals

\* The instances constructed before the last step.
InstancesBefore == Len(controllers) - (IF lastEv.fresh THEN 1 ELSE 0)

\* C25: the global settings are written to the engine module only before
\* the first instance is constructed: no mount writes a global setting
\* when an instance already exists.
C25_GlobalsOnlyBeforeFirstInstance == GlobalsWritten => InstancesBefore = 0

\* C26: while the Map stays mounted with the same mapLib, reuseMaps and id,
\* a re-render that changes another prop (the view, or the onError
\* function) neither destroys nor recycles the engine instance.
C26_OtherPropsKeepInstance ==
  lastEv.kind \in {"render", "handler"} =>
    lastEv.cleanup \notin {"destroy", "recycle"}

\* C27: a call of _setZoom(z) through the proxy with a finite z sets the
\* committed zoom to z if zoom is not declared and leaves the committed
\* zoom as it was if zoom is declared, inside and outside a camera update;
\* a call with a z that is not finite changes neither transform and is
\* reported to the error sink.
C27_SetZoomWritesCommittedIfUndeclared ==
  [][(lastOp'.kind = "call" /\ lastOp'.prop = "_setZoom" /\ nOps' = nOps + 1) =>
       IF IsFinite(lastOp'.value)
       THEN PropGet(controlledTransform', "_zoom") =
              (IF IsFinite(reactViewState["zoom"])
               THEN PropGet(controlledTransform, "_zoom")
               ELSE lastOp'.value)
       ELSE /\ controlledTransform' = controlledTransform
            /\ proposedTransform' = proposedTransform
            /\ lastOp'.errs = <<"method:_setZoom:invalid">>]_vars

\* _setZoom(1) was called inside a camera update with zoom declared as 0:
\* the committed zoom is still 0.
C27_DeclaredZoomKept ==
  /\ lastOp.kind = "call" /\ lastOp.prop = "_setZoom" /\ lastOp.value = 1
  /\ internalUpdate
  /\ reactViewState["zoom"] = 0
  /\ PropGet(controlledTransform, "_zoom") = 0

\* C28: after _setZoom(z) was called inside a camera update with zoom
\* declared, a proposed transform exists and its zoom is z, whether or not
\* an earlier write of the update had created the proposed transform.
C28_SetZoomRecordsAttempt ==
  (/\ lastOp.kind = "call" /\ lastOp.prop = "_setZoom"
   /\ IsFinite(lastOp.value)
   /\ internalUpdate
   /\ IsFinite(reactViewState["zoom"]))
    => /\ proposedTransform # <<>>
       /\ PropGet(proposedTransform[1], "_zoom") = lastOp.value

\* C29: a recompute routine (_calcMatrices, _calcFogMatrices,
\* _updateCameraState, _updateSeaLevelZoom) called through the proxy runs
\* on the proposed and on the controlled transform when a proposed
\* transform exists, and on the controlled transform alone otherwise.
C29_RecomputeOnBothTransforms ==
  lastOp.kind = "recompute" =>
    lastOp.result = (IF proposedTransform # <<>>
                     THEN {"proposed", "controlled"}
                     ELSE {"controlled"})

\* _calcMatrices was called while a proposed transform existed and ran on
\* both.
C29_RecomputedWithProposed ==
  /\ lastOp.kind = "recompute" /\ lastOp.prop = "_calcMatrices"
  /\ proposedTransform # <<>>
  /\ lastOp.result = {"proposed", "controlled"}

\* C30: setting the declared view is atomic: when applying the new view to
\* the controlled transform fails, the error is reported and the declared
\* view keeps its previous value, so that after an assignment of
\* $reactViewState every declared field has its value in the controlled
\* transform.
C30_DeclaredViewIsApplied ==
  lastOp.kind = "declare" =>
    /\ lastOp.errs # <<>> => lastOp.errs = <<"set:$reactViewState">>
    /\ \A f \in ViewFields :
         IsDeclared(reactViewState, f) =>
           controlledTransform[MemberOf(f)] = reactViewState[f]

\* C31: after project, unproject, queryTerrainElevation or
\* queryRenderedFeatures called through the ref has returned, map.transform
\* is what it was before the call, whether the engine call returned or
\* threw and whatever map.transform was.
C31_TransformRestored ==
  [][(lastOp'.kind = "ref" /\ lastOp'.prop \in SwitchedMethods /\ nOps' = nOps + 1)
       => mapTransform' = mapTransform]_vars

\* The last call of setGlobals has run to its await or its return.
Called == globalsSt # <<>>

\* The valid values of a global setting: a positive integer for the two
\* counts, a string that is not empty for the two URLs, anything but null
\* and undefined for workerClass.
ValidSetting(k, v) ==
  CASE k \in {"maxParallelImageRequests", "workerCount"} ->
         v = GVal("number", 2, TRUE)
    [] k \in {"baseApiUrl", "workerUrl"} -> v = GVal("string", 1, FALSE)
    [] OTHER -> v \notin {GVal("null", 0, FALSE), GVal("undefined", 0, FALSE)}

\* C32, as stated: setGlobals writes a global setting to the engine module if and
\* only if the key is in props and its value is valid; an invalid value is
\* reported once to onError and leaves the key alone, a key that is not in
\* props is never written, and a mapLib that is no object gives one error,
\* no write and no plugin load.
C32_SettingsWrittenIffValid ==
  Called =>
    LET g == globalsSt[1]
        written(k) == g.module[k] # EngineDefault
        reports(k) == Cardinality({i \in DOMAIN g.errs : g.errs[i] = k})
    IN IF g.mapLibOk
       THEN /\ g.moduleErrs = 0
            /\ \A k \in GlobalKeys :
                 /\ written(k) <=>
                      (k \in DOMAIN g.gprops /\ ValidSetting(k, g.gprops[k]))
                 /\ written(k) => g.module[k] = g.gprops[k]
                 /\ reports(k) =
                      (IF g.onError /\ k \in DOMAIN g.gprops
                          /\ ~ValidSetting(k, g.gprops[k])
                       THEN 1 ELSE 0)
       ELSE /\ g.moduleErrs = (IF g.onError THEN 1 ELSE 0)
            /\ g.errs = <<>> /\ g.toOnError = 0 /\ g.toHandler = 0
            /\ \A k \in GlobalKeys : ~written(k)
            /\ g.loads = 0 /\ g.timers = 0

\* C32, amended: setGlobals writes a global setting only if the key is in
\* props and its value is valid; a key in props is either written, or
\* reported once to onError and left alone (its value is invalid, or the
\* module rejected the assignment); a key that is not in props is neither
\* written nor reported; a mapLib that is no object gives one error, no
\* write and no plugin load.
C32_SettingsWrittenOrReported ==
  Called =>
    LET g == globalsSt[1]
        written(k) == g.module[k] # EngineDefault
        reports(k) == Cardinality({i \in DOMAIN g.errs : g.errs[i] = k})
    IN IF g.mapLibOk
       THEN /\ g.moduleErrs = 0
            /\ \A k \in GlobalKeys :
                 /\ written(k) =>
                      /\ k \in DOMAIN g.gprops
                      /\ ValidSetting(k, g.gprops[k])
                      /\ g.module[k] = g.gprops[k]
                 /\ reports(k) =
                      (IF g.onError /\ k \in DOMAIN g.gprops /\ ~written(k)
                       THEN 1 ELSE 0)
       ELSE /\ g.moduleErrs = (IF g.onError THEN 1 ELSE 0)
            /\ g.errs = <<>> /\ g.toOnError = 0 /\ g.toHandler = 0
            /\ \A k \in GlobalKeys : ~written(k)
            /\ g.loads = 0 /\ g.timers = 0

\* A call with workerCount 0 and workerUrl "u" on a module that rejects
\* assignments: both were reported, in the order of globalSettings, and
\* neither was written.
C32_InvalidAndRejectedReported ==
  /\ Called
  /\ DOMAIN globalsSt[1].gprops = {"workerCount", "workerUrl"}
  /\ globalsSt[1].gprops["workerCount"] = GVal("number", 0, TRUE)
  /\ globalsSt[1].gprops["workerUrl"] = GVal("string", 1, FALSE)
  /\ globalsSt[1].errs = <<"workerCount", "workerUrl">>
  /\ \A k \in GlobalKeys : globalsSt[1].module[k] = EngineDefault

\* The conditions of a plugin load: RTLTextPlugin is not false, the module
\* has both plugin methods and the plugin's status is 'unavailable'.
LoadWanted(g) ==
  g.mapLibOk /\ g.rtl # "false" /\ g.methods = "both" /\ g.status = "unavailable"

\* C33: one call of setGlobals invokes the engine's setRTLTextPlugin at
\* most once, and only if RTLTextPlugin is not false, both plugin methods
\* exist and the status is 'unavailable'; otherwise it starts no load and
\* arms no timer.
C33_LoadOnlyWhenUnavailable ==
  Called =>
    LET g == globalsSt[1]
    IN /\ g.loads <= 1 /\ g.timers <= 1
       /\ g.loads = 1 => LoadWanted(g)
       /\ ~LoadWanted(g) =>
            g.loads = 0 /\ g.timers = 0 /\ g.race = "none" /\ g.timer = "none"

\* A call has started the load; callback and timer have both come.
C33_LoadStartedOnce ==
  /\ Called
  /\ globalsSt[1].loads = 1 /\ globalsSt[1].timers = 1
  /\ globalsSt[1].cb = "called" /\ globalsSt[1].timer = "fired"

\* C34: for every order of the load callback and the timeout, one call of
\* setGlobals delivers at most one RTL plugin error to each handler: none
\* if the load succeeded first, even when the timer fires later, and
\* exactly one to onRTLPluginError, if given, and one to onError, if given,
\* when the load failed or the timeout came first, also when
\* onRTLPluginError throws.
C34_OneErrorPerHandler ==
  Called =>
    LET g == globalsSt[1]
    IN /\ g.toHandler <= 1 /\ g.toOnError <= 1
       /\ g.race = "resolved" => g.toHandler = 0 /\ g.toOnError = 0
       /\ g.race = "rejected" =>
            /\ g.toHandler = (IF g.rtlHandler # "absent" THEN 1 ELSE 0)
            /\ g.toOnError = (IF g.onError THEN 1 ELSE 0)

\* The race was lost, callback and timer have both come, onRTLPluginError
\* threw and onError got its one error.
C34_HandlerThrewOnErrorCalled ==
  /\ Called
  /\ globalsSt[1].race = "rejected"
  /\ globalsSt[1].cb = "called" /\ globalsSt[1].timer = "fired"
  /\ globalsSt[1].rtlHandler = "throws"
  /\ globalsSt[1].toHandler = 1 /\ globalsSt[1].toOnError = 1

\* An object reachable from a lies on a cycle of references.
RECURSIVE Cyclic(_, _, _)
Cyclic(h, a, seen) ==
  /\ a.t = "ref"
  /\ \/ a.v \in seen
     \/ \E key \in DOMAIN h[a.v].fields :
          Cyclic(h, h[a.v].fields[key], seen \cup {a.v})

\* The depth of the deepest value below a, for a without cycles.
RECURSIVE Nesting(_, _)
Nesting(h, a) ==
  IF a.t = "leaf" \/ DOMAIN h[a.v].fields = {} THEN 0
  ELSE 1 + CHOOSE d \in 0..4 :
             /\ \E key \in DOMAIN h[a.v].fields : Nesting(h, h[a.v].fields[key]) = d
             /\ \A key \in DOMAIN h[a.v].fields : Nesting(h, h[a.v].fields[key]) <= d

\* a and b unfold to the same structure down to depth d: the same kind of
\* object, the same keys and, below every key, values that unfold to the
\* same structure; leaves are the same value.
RECURSIVE SameUnfolding(_, _, _, _)
SameUnfolding(h, a, b, d) ==
  IF a.t = "leaf" \/ b.t = "leaf" THEN a = b
  ELSE IF d = 0 THEN TRUE
  ELSE /\ h[a.v].kind = h[b.v].kind
       /\ DOMAIN h[a.v].fields = DOMAIN h[b.v].fields
       /\ \A key \in DOMAIN h[a.v].fields :
            SameUnfolding(h, h[a.v].fields[key], h[b.v].fields[key], d - 1)

\* Two values over objects of NodesA and NodesB that unfold to the same
\* structure down to this depth do so at every depth.
UnfoldDepth == Cardinality(NodesA) * Cardinality(NodesB) + 1

\* C38: for values without cycles and with nesting of at most maxDepth,
\* deepEqual(a, b) is true if and only if a and b have the same structure
\* and leaves, and deepEqual(a, b) = deepEqual(b, a).
C38_DeepEqualIsStructural ==
  (/\ eqSt.done
   /\ ~Cyclic(eqSt.heap, eqSt.a, {}) /\ ~Cyclic(eqSt.heap, eqSt.b, {})
   /\ Nesting(eqSt.heap, eqSt.a) <= eqSt.maxDepth
   /\ Nesting(eqSt.heap, eqSt.b) <= eqSt.maxDepth)
    => /\ eqSt.result = SameUnfolding(eqSt.heap, eqSt.a, eqSt.b, UnfoldDepth)
       /\ eqSt.result = eqSt.reverse

\* Two distinct objects {k: {v: 1}, v: 2} were found equal.
C38_EqualNestedObjects ==
  /\ eqSt.done /\ eqSt.result /\ eqSt.reverse
  /\ eqSt.a # eqSt.b
  /\ eqSt.heap["a1"] = [kind |-> "object", fields |-> [k |-> Ref("a2"), v |-> Leaf("2")]]
  /\ eqSt.heap["a2"] = [kind |-> "object", fields |-> [v |-> Leaf("1")]]
  /\ eqSt.heap["b1"] = [kind |-> "object", fields |-> [k |-> Ref("b2"), v |-> Leaf("2")]]
  /\ eqSt.heap["b2"] = [kind |-> "object", fields |-> [v |-> Leaf("1")]]

\* C39: on arguments with cycles of references deepEqual returns, and it
\* returns true only if the two unfold to the same structure.
C39_CyclicEqualOnlyIfSameUnfolding ==
  (/\ eqSt.done
   /\ Cyclic(eqSt.heap, eqSt.a, {}) \/ Cyclic(eqSt.heap, eqSt.b, {})
   /\ eqSt.result)
    => SameUnfolding(eqSt.heap, eqSt.a, eqSt.b, UnfoldDepth)

\* ------------------------------------------------- claims about the Layer
\* Two style values are equal in depth.
SameValue(a, b) == SameUnfolding(LayerHeap, a, b, 2)

\* The calls that bring a layer from the props prev to the props p and
\* no others: one per member of layout and paint whose value is not equal
\* in depth to the one before (undefined for a member that is gone), and
\* one each for a changed position, filter and zoom range.
NeededStyleCalls(op, new, prev) ==
  {LayerCall(op, k, FieldGet(StyleFields(new), k), Leaf("undefined")) :
     k \in {key \in DOMAIN StyleFields(new) \cup DOMAIN StyleFields(prev) :
              ~SameValue(FieldGet(StyleFields(new), key),
                         FieldGet(StyleFields(prev), key))}}
NeededCalls(p, prev) ==
  NeededStyleCalls("setLayoutProperty", p.layout, prev.layout)
  \cup NeededStyleCalls("setPaintProperty", p.paint, prev.paint)
  \cup {LayerCall("moveLayer", "", p.beforeId, Leaf("undefined")) : x \in
          {y \in {1} : p.beforeId # prev.beforeId}}
  \cup {LayerCall("setFilter", "", p.filter, Leaf("undefined")) : x \in
          {y \in {1} : ~SameValue(p.filter, prev.filter)}}
  \cup {LayerCall("setLayerZoomRange", "", p.minzoom, p.maxzoom) : x \in
          {y \in {1} : p.minzoom # prev.minzoom \/ p.maxzoom # prev.maxzoom}}

\* The last step was an update pass on a layer that is not custom and
\* has kept its id and type.
UpdatePass ==
  /\ layerSt.ev.kind \in {"render", "forced"}
  /\ layerSt.ev.present
  /\ layerSt.propsRef.id = layerSt.ev.prev.id
  /\ layerSt.propsRef.type = layerSt.ev.prev.type
  /\ layerSt.propsRef.type # "custom"

\* C35: an update pass on an existing layer that is not custom makes the
\* calls that the difference between the props and the props before
\* needs, each once, and no others; props equal in depth need none.
C35_UpdateCallsAreTheDifference ==
  UpdatePass
    => /\ {layerSt.ev.calls[i] : i \in 1..Len(layerSt.ev.calls)}
            = NeededCalls(layerSt.propsRef, layerSt.ev.prev)
       /\ Len(layerSt.ev.calls) = Cardinality(NeededCalls(layerSt.propsRef, layerSt.ev.prev))

\* Witness of C35: a layout made anew of which one member has another
\* value and one is gone: two calls.
C35_ChangedAndRemovedKey ==
  /\ UpdatePass
  /\ layerSt.ev.prev.layout = StyleObject(0, [p |-> Ref("x1"), q |-> Leaf("1")])
  /\ layerSt.ev.calls =
       <<LayerCall("setLayoutProperty", "p", Leaf("1"), Leaf("undefined")),
         LayerCall("setLayoutProperty", "q", Leaf("undefined"), Leaf("undefined"))>>

\* The layer of the engine has what the props say.
Reflects(l, p) ==
  /\ l.before = p.beforeId
  /\ \A k \in DOMAIN l.layout \cup DOMAIN StyleFields(p.layout) :
       SameValue(FieldGet(l.layout, k), FieldGet(StyleFields(p.layout), k))
  /\ \A k \in DOMAIN l.paint \cup DOMAIN StyleFields(p.paint) :
       SameValue(FieldGet(l.paint, k), FieldGet(StyleFields(p.paint), k))
  /\ SameValue(l.filter, p.filter)
  /\ l.minzoom = p.minzoom /\ l.maxzoom = p.maxzoom

\* C36: after every render of a Layer whose layer is in the map, the
\* layout, paint, filter, zoom range and position of the layer are those
\* of the props of that render, also if the id or the type has changed or
\* an engine call of the update pass threw.
C36_LayerReflectsProps ==
  (/\ layerSt.ev.kind \in {"mount", "render", "forced"}
   /\ layerSt.layer # <<>>
   /\ layerSt.propsRef.type # "custom")
    => Reflects(layerSt.layer[1], layerSt.propsRef)

\* The conditions under which a layer with the props p can be added now.
Addable(p) ==
  /\ layerSt.style = "loaded"
  /\ p.source => layerSt.sourceExists

\* addLayer is called only in a render that finds the style loaded, the
\* source of the props, if they name one, in the map and no layer with
\* the id.
AddOnlyWhenAddable ==
  layerSt.ev.added => (Addable(layerSt.propsRef) /\ ~layerSt.ev.present)

\* A 'styledata' event has left the map of a mounted Layer such that its
\* layer can be added.
StyleDataMadeAddable ==
  /\ layerSt.ev.kind = "styledata"
  /\ layerSt.mounted
  /\ layerSt.layer = <<>>
  /\ Addable(layerSt.propsRef)

\* C37: addLayer is called only where the style is loaded, the source
\* exists or none is named, and no layer with the id is in the map; and
\* after a 'styledata' event that has made this so, the layer is added in
\* the render that the event forces, unless the Layer is unmounted or the
\* map or the props have changed again before.
C37_LayerAddedWhenAddable ==
  /\ []AddOnlyWhenAddable
  /\ StyleDataMadeAddable
       ~> (layerSt.layer # <<>> \/ ~layerSt.mounted \/ ~Addable(layerSt.propsRef))

\* Witness of C37: the forced render after a 'styledata' event has added
\* a layer that names a source.
C37_AddedAfterStyleData ==
  /\ layerSt.ev.kind = "forced"
  /\ layerSt.ev.added
  /\ layerSt.propsRef.source
  /\ layerSt.layer # <<>>

====
